---- MODULE Spec2Model ----
(***************************************************************************)
(* Playback arbitration of react-riyils: the PlaybackController            *)
(* (src/src/use-shared-video.ts) and the deterministic play engine         *)
(* playDeterministic (src/src/use-video-source.ts), run against media      *)
(* elements whose play requests the browser accepts, denies or fails.      *)
(*                                                                         *)
(* JavaScript runs one callback at a time, so every action below is one    *)
(* run-to-completion step: the synchronous part of a public call, or the   *)
(* resumption of an async function after the promise it awaits settles.    *)
(***************************************************************************)
EXTENDS Integers, Sequences, FiniteSets, TLC

\* ------------------------------------------------------------------ bounds
MaxCalls == 2          \* play() calls issued in one behaviour
MaxTime == 1           \* largest currentTime a media element reaches
MaxEntries == 2        \* cache entries constructed in one behaviour
MaxRef == 2            \* largest refCount attach() is followed to
MaxRequests == 3       \* video.play() requests of the carousel hook
MaxTimeouts == 2       \* setTimeout calls of the carousel hook
MaxApply == 3          \* applyPlayback calls of the viewer hook that take a token
MaxFrames == 3         \* animation frames the iOS guard requests
MaxOrientation == 2    \* pending timers of the guard's onOrientationChange
MaxNow == 3            \* Date.now() of the guard, in units of 300 ms
MaxPrimed == 2         \* audio.play() primings of the autoplay unlock

\* ------------------------------------------------------------ value spaces
PlaybackScope == {"viewer", "carousel"}
Ids == {"a", "b"}
Videos == {"v1", "v2"}
Rates == {1, 2}
None == [token |-> 0]

buildKey(scope, id) == <<scope, id>>
Keys == {buildKey(s, i) : s \in PlaybackScope, i \in Ids}

DeterministicPlayOptions == [muted : BOOLEAN, playbackRate : Rates, allowAutoMute : BOOLEAN]

\* The element a request carries is the one registered for its id
\* (getVideoEl(currentIndex) beside getActiveId() in useRiyilsPlayback).
VideoOf(id) == IF id = "a" THEN "v1" ELSE "v2"
PlaybackRequest ==
    {r \in [scope : PlaybackScope, id : Ids, video : Videos, options : DeterministicPlayOptions] :
        r.video = VideoOf(r.id)}

\* The requests of EngineSpec: every option, on one key and its element.
EngineRequests == {r \in PlaybackRequest : r.scope = "viewer" /\ r.id = "a"}

\* The requests of the concurrent specification Spec: unmuted at normal speed,
\* the requests the muted retry exists for. Neither the controller nor the
\* engine reads the two options fixed here (the engine only copies them to
\* the element); EngineSpec draws every option.
ArbitrationRequests ==
    {r \in PlaybackRequest : r.options.playbackRate = 1 /\ ~r.options.muted}

\* What the browser does with one video.play() request when it is issued:
\* "allowed" unpauses the element and leaves the promise pending; the other
\* two leave the element as it is and reject the promise with that error.
PlayRequests == {"allowed", "NotAllowedError", "NotSupportedError"}

\* How the promise of video.play() settles: an allowed request resolves, unless
\* pause() took the element out of playback while the promise was pending
\* ("aborted"), which rejects it with AbortError as the other two reject.
Settlement(request) ==
    IF request = "allowed" THEN "resolved"
    ELSE IF request = "aborted" THEN "AbortError"
    ELSE request

VARIABLES
    sessions,        \* PlaybackController.sessions: key -> session or None
    globalToken,     \* PlaybackController.globalToken
    calls,           \* the play() calls issued so far, in call order: a call
                     \* in flight holds its locals, a settled one its request
    settled,         \* the play() call whose promise settled last, as it ended
    paused,          \* video.paused of every element
    muted,           \* video.muted
    playbackRate,    \* video.playbackRate
    currentTime,     \* video.currentTime
    frameCallback,   \* whether elements expose requestVideoFrameCallback
    cache,           \* VideoSourceManager.cache: its entries in insertion order
    disposeTimeouts, \* VideoSourceManager.disposeTimeouts: key -> timer or NoTimer
    timers,          \* the timers of setTimeout that are armed and not cleared
    created,         \* the number of entries ensureEntry has constructed
    destroyed,       \* the stream handles on which destroy() has been called
    media,           \* the element each stream handle was last given by attachMedia
    orphaned,        \* refCount of removed entries a live timer still holds
    src,             \* video.src of every element
    unloaded,        \* the element has no source and load() emptied it
    hlsSupported,    \* Hls.isSupported()
    last,            \* the manager call or timer callback that ran last, and
                     \* what it found cached under its key
    connection,      \* navigator.connection
    innerWidth,      \* window.innerWidth, or NoWindow
    source,          \* the source last handed to the resolver
    resolved,        \* what the resolver returned for it
    viewer,          \* useRiyilsPlayback: its state, its ref, its element's
                     \* readiness and its applyPlayback calls in flight
    carousel,        \* useCarouselPlayback: its props, state and refs, the
                     \* timers it armed and its tryPlay calls in flight
    guard,           \* useIosSafariGuard: its refs, the frames and timers it
                     \* requested, and what its last step called
    autoplay         \* useIosAutoplayUnlock: the module's latch and the
                     \* instances of the hook

sourceVars == <<cache, disposeTimeouts, timers, created, destroyed, media, orphaned, src, unloaded, hlsSupported, last>>

signalVars == <<connection, innerWidth, source, resolved>>

platformVars == <<guard, autoplay>>

hookVars == <<viewer, carousel, platformVars>>

vars == <<sessions, globalToken, calls, settled, paused, muted, playbackRate, currentTime, frameCallback, sourceVars, signalVars, hookVars>>

\* ------------------------------------------------------ PlaybackController
\* Mutant of nextToken: the counter is read but not advanced.
sameToken(g) == g

nextToken(g) == g + 1

\* Mutant of SessionsWithout: cancelSession pauses but deletes nothing.
SessionsKept(S, ks) == S

\* cancelSession on every key of ks: the sessions map afterwards ...
SessionsWithout(S, ks) == [k \in Keys |-> IF k \in ks THEN None ELSE S[k]]

\* ... and the elements' paused flags: existing.video.pause() for each session found.
PausedBy(P, S, ks) ==
    [v \in Videos |-> P[v] \/ \E k \in ks : S[k] # None /\ S[k].video = v]

\* Mutant of CancelAllExceptKeys: no other key is cancelled.
CancelNoOtherKey(key) == {}

\* Mutant of CancelAllExceptKeys: the excepted key is cancelled with the rest.
CancelEveryKey(key) == Keys

\* Mutant of CancelAllExceptKeys: only the keys of key's own scope.
CancelSameScopeKeys(key) == {k \in Keys : k # key /\ k[1] = key[1]}

\* The keys cancelAllExcept(key) hands to cancelSession: every stored key but key.
CancelAllExceptKeys(key) == {k \in Keys : k # key}

\* Mutant of IsCurrent: any stored session counts, whatever its token.
IsCurrentAnyToken(S, key, token) == S[key] # None

\* Mutant of IsCurrent: a missing session counts as this call's.
IsCurrentOrIdle(S, key, token) == S[key] = None \/ S[key].token = token

\* `current?.token !== token` negated: the stored session is this call's.
IsCurrent(S, key, token) == S[key] # None /\ S[key].token = token

\* The value play() settles with, from the token test and the engine's result;
\* an exception of the awaited engine call would propagate as a rejection.
PlaybackResult(current, engineResult) ==
    IF engineResult = "threw" THEN "rejected"
    ELSE IF ~current THEN "cancelled"
    ELSE engineResult

\* ------------------------------------------------- deterministic play engine
\* Mutant of AttemptPlay: only the policy denial is caught.
AttemptPlayRethrows(settlement) ==
    IF settlement = "resolved" THEN "ok"
    ELSE IF settlement = "NotAllowedError" THEN "not-allowed"
    ELSE "threw"

\* attemptPlay: await video.play() inside try/catch.
AttemptPlay(settlement) ==
    IF settlement = "resolved" THEN "ok"
    ELSE IF settlement = "NotAllowedError" THEN "not-allowed"
    ELSE "failed"

\* video.play() issued: an allowed request unpauses the element at once.
IssuePlay(P, v, request) == IF request = "allowed" THEN [P EXCEPT ![v] = FALSE] ELSE P

\* Mutant of AfterFirstRejected: a policy denial is retried whatever allowAutoMute.
AlwaysRetryDenied(first, allowAutoMute) ==
    IF first = "threw" THEN "threw"
    ELSE IF first # "not-allowed" THEN "failed"
    ELSE "retry"

\* What playDeterministic does when the first attempt was not 'ok': retry muted,
\* or return 'blocked' or 'failed'.
AfterFirstRejected(first, allowAutoMute) ==
    IF first = "threw" THEN "threw"
    ELSE IF first # "not-allowed" THEN "failed"
    ELSE IF ~allowAutoMute THEN "blocked"
    ELSE "retry"

\* Mutant of MutedForRetry: the retry leaves muted as it is.
MutedLeftForRetry(M, v) == M

\* `video.muted = true` before the retry.
MutedForRetry(M, v) == [M EXCEPT ![v] = TRUE]

\* The engine's result when the retry's attempt was not 'ok'.
AfterSecondRejected(second) == IF second = "threw" THEN "threw" ELSE "blocked"

\* The engine's result when verifyProgress returned false (after video.pause()),
\* on the first attempt and on the retry.
Stalled(attempts) == "failed"

\* Mutant of Progressed: an unchanged currentTime counts as progress.
ProgressedOrSame(now, start) == now >= start

\* `video.currentTime > start` of verifyProgressByTime and of the frame callback.
Progressed(now, start) == now > start

\* verifyProgress entered: by frames when the element has the frame callback,
\* else the fast time sample; either records start = video.currentTime.
BeginVerify(call) ==
    [call EXCEPT !.pc = IF frameCallback THEN "frames" ELSE "fast",
                 !.start = currentTime[call.video]]

\* The next time sample of verifyProgress: a new start = video.currentTime.
NextSample(call, stage) == [call EXCEPT !.pc = stage, !.start = currentTime[call.video]]

InFlight(c) == c \in 1..Len(calls) /\ calls[c].result = "pending"

\* video.pause() on a playing element rejects its pending play promises: the
\* calls C after the paused flags went from P to Q.
Aborted(C, P, Q) ==
    [c \in DOMAIN C |->
        IF /\ C[c].result = "pending" /\ C[c].pc = "play" /\ C[c].request = "allowed"
           /\ ~P[C[c].video] /\ Q[C[c].video]
        THEN [C[c] EXCEPT !.request = "aborted"]
        ELSE C[c]]

\* No promise of play() has settled yet.
NoCall == [token |-> 0]

\* What stays of a call once its promise has settled: the request's key and element.
AfterSettle(call) ==
    [call EXCEPT !.muted = FALSE, !.allowAutoMute = FALSE, !.pc = "done", !.request = "none",
                 !.attempts = 0, !.start = 0, !.result = "settled"]

\* playDeterministic returns engineResult with the paused flags P; play()
\* resumes at its token test (lines 75-83) and settles its promise: settled
\* holds the call as it ended, pc being the stage the engine returned from.
Return(c, engineResult, P) ==
    LET call == calls[c]
        current == IsCurrent(sessions, call.key, call.token)
        drop == current /\ engineResult \notin {"playing", "threw"}
        Q == IF drop THEN PausedBy(P, sessions, {call.key}) ELSE P
    IN  /\ settled' = [call EXCEPT !.start = 0, !.request = "none",
                                   !.engine = engineResult,
                                   !.result = PlaybackResult(current, engineResult)]
        /\ calls' = Aborted([calls EXCEPT ![c] = AfterSettle(call)], paused, Q)
        /\ sessions' = IF drop THEN SessionsWithout(sessions, {call.key}) ELSE sessions
        /\ paused' = Q

\* --------------------------------------------------------- source resolver
\* JavaScript values: undefined, and strings as sequences of segments, so that
\* `includes` has something to search; '' is the empty sequence.
Undefined == [undefined |-> TRUE]
Str(chars) == [chars |-> chars]
EmptyString == Str(<<>>)
Urls == {Str(<<"a", ".mp4">>), Str(<<"b", ".m3u8">>)}
IsString(x) == DOMAIN x = {"chars"}

\* A value in a condition, and `a || b`.
Truthy(x) == x # Undefined /\ x # EmptyString
Or(a, b) == IF Truthy(a) THEN a ELSE b

VideoQualityVariants ==
    [low : Urls \cup {Undefined, EmptyString},
     mid : Urls \cup {Undefined, EmptyString},
     high : Urls \cup {Undefined, EmptyString}]

\* What callers hand over as src: string | VideoQualityVariants | undefined.
Sources == Urls \cup {Undefined, EmptyString} \cup VideoQualityVariants

\* navigator.connection: absent, or its saveData and its downlink in tenths of
\* Mbit/s (0 for a downlink that is missing or zero).
NoConnection == [none |-> TRUE]
Downlinks == {0, 6, 7, 24, 25}
ConnectionInfo == [saveData : BOOLEAN, downlink : Downlinks]
NoWindow == 0
InnerWidths == {NoWindow, 767, 768}

getConnection == connection

getInitialBandwidthEstimate ==
    IF getConnection = NoConnection THEN 1000000
    ELSE IF getConnection.saveData THEN 200000
    ELSE LET downlink == IF getConnection.downlink = 0 THEN 15 ELSE getConnection.downlink
         IN  (downlink * 100000 * 8) \div 10

\* Mutant of isSmallScreen: the breakpoint itself counts as small.
isSmallScreenInclusive == innerWidth # NoWindow /\ innerWidth <= 768

isSmallScreen == innerWidth # NoWindow /\ innerWidth < 768

\* Mutant of selectOptimalSource: the constrained branch has no fallback.
selectLowOnly(variants) ==
    LET bandwidth == getInitialBandwidthEstimate
        isMobile == isSmallScreen
    IN  IF bandwidth < 500000 \/ isMobile THEN variants.low
        ELSE IF bandwidth < 2000000 THEN Or(Or(variants.mid, variants.high), variants.low)
        ELSE Or(Or(variants.high, variants.mid), variants.low)

selectOptimalSource(variants) ==
    LET bandwidth == getInitialBandwidthEstimate
        isMobile == isSmallScreen
    IN  IF bandwidth < 500000 \/ isMobile THEN Or(Or(variants.low, variants.mid), variants.high)
        ELSE IF bandwidth < 2000000 THEN Or(Or(variants.mid, variants.high), variants.low)
        ELSE Or(Or(variants.high, variants.mid), variants.low)

resolveFinalUrl(s) ==
    IF ~Truthy(s) THEN Undefined
    ELSE IF IsString(s) THEN s
    ELSE selectOptimalSource(s)

isHlsUrl(url) == \E i \in 1..Len(url.chars) : url.chars[i] = ".m3u8"

\* ----------------------------------------------------- VideoSourceManager
\* The capacity of the cache, scaled from the source's 50 to below the number
\* of keys the manager is called with here.
CACHE_LIMIT == 1

NoEntry == [id |-> 0]
NoTimer == [kind |-> "none"]
NoSrc == EmptyString
Blob(hls) == [blob |-> hls]

\* The manager's fields as one value, threaded through its private methods;
\* entry is the id of the entry ensureEntry returned (0 for null).
Manager ==
    [cache |-> cache, disposeTimeouts |-> disposeTimeouts, timers |-> timers,
     created |-> created, destroyed |-> destroyed, media |-> media,
     orphaned |-> orphaned, entry |-> 0]

\* cache.get(key) and cache.has(key)
get(C, key) ==
    IF \E i \in 1..Len(C) : C[i].key = key
    THEN C[CHOOSE i \in 1..Len(C) : C[i].key = key]
    ELSE NoEntry
has(C, key) == get(C, key) # NoEntry

\* Mutant of destroy: the handle is left alive.
destroyNothing(m, hls) == m

\* hls?.destroy(): the handle is destroyed and lets go of its element.
destroy(m, hls) ==
    IF hls = 0 THEN m
    ELSE [m EXCEPT !.destroyed = @ \cup {hls}, !.media[hls] = "none"]

\* cache.delete(key); the entry object lives on, with its refCount, in the
\* closure of a timer that holds it.
delete(m, key) ==
    LET e == get(m.cache, key)
    IN  IF e = NoEntry THEN m
        ELSE [m EXCEPT !.cache = SelectSeq(@, LAMBDA x : x.key # key),
                       !.orphaned[e.id] =
                            IF \E t \in m.timers : t.entry = e.id THEN e.refCount ELSE 0]

\* Mutant of cancelPendingDispose: the map forgets the timer, which stays armed.
forgetPendingDispose(m, key) ==
    IF m.disposeTimeouts[key] # NoTimer
    THEN [m EXCEPT !.disposeTimeouts[key] = NoTimer]
    ELSE m

cancelPendingDispose(m, key) ==
    IF m.disposeTimeouts[key] # NoTimer
    THEN [m EXCEPT !.timers = @ \ {m.disposeTimeouts[key]}, !.disposeTimeouts[key] = NoTimer]
    ELSE m

\* The loop of cleanupCacheIfNeeded over the entries in insertion order.
RECURSIVE evict(_, _)
evict(m, rest) ==
    IF rest = <<>> THEN m
    ELSE LET e == Head(rest)
         IN  IF e.refCount = 0 /\ m.disposeTimeouts[e.key] = NoTimer
             THEN LET m1 == delete(destroy(m, e.hls), e.key)
                  IN  IF Len(m1.cache) < CACHE_LIMIT THEN m1 ELSE evict(m1, Tail(rest))
             ELSE evict(m, Tail(rest))

cleanupCacheIfNeeded(m) ==
    IF Len(m.cache) >= CACHE_LIMIT THEN evict(m, m.cache) ELSE m

\* Mutant of newEntry: the entry is born referenced.
newEntryReferenced(key, id, url, hls) ==
    [key |-> key, id |-> id, url |-> url, hls |-> hls, refCount |-> 1]

\* `{ url, hls, refCount: 0 }`, under its key and with its identity.
newEntry(key, id, url, hls) ==
    [key |-> key, id |-> id, url |-> url, hls |-> hls, refCount |-> 0]

\* ensureEntry: a new handle (hls # 0) is constructed and given loadSource(url)
\* exactly when a new entry is, for a manifest URL where Hls is supported.
ensureEntry(m, key, s) ==
    LET url == resolveFinalUrl(s)
    IN  IF ~Truthy(s) \/ ~Truthy(url) THEN [m EXCEPT !.entry = 0]
        ELSE LET m1 == cancelPendingDispose(m, key)
                 existing == get(m1.cache, key)
             IN  IF existing # NoEntry /\ existing.url = url
                 THEN [m1 EXCEPT !.entry = existing.id]
                 ELSE LET m2 == IF existing # NoEntry
                                THEN delete(destroy(m1, existing.hls), key)
                                ELSE m1
                          m3 == cleanupCacheIfNeeded(m2)
                          id == m3.created + 1
                          hls == IF isHlsUrl(url) /\ hlsSupported THEN id ELSE 0
                      IN  [m3 EXCEPT !.cache = Append(@, newEntry(key, id, url, hls)),
                                     !.created = id, !.entry = id]

\* entry.refCount = n for the entry cached under key
setRefCount(m, key, n) ==
    [m EXCEPT !.cache = [i \in 1..Len(@) |->
                            IF @[i].key = key THEN [@[i] EXCEPT !.refCount = n] ELSE @[i]]]

\* Mutant of arm: no disposal timer is armed.
armNothing(m, t) == m

\* setTimeout(...) and disposeTimeouts.set(key, timeoutId)
arm(m, t) == [m EXCEPT !.timers = @ \cup {t}, !.disposeTimeouts[t.key] = t]

\* No manager call has run yet.
NoOp == [op |-> "none"]

\* The call op(key, ...) with its element and scope arguments, and the entry
\* and refCount it finds under key.
Op(op, key, video, scope) ==
    [op |-> op, key |-> key, video |-> video, scope |-> scope,
     entry |-> get(cache, key).id,
     refCount |-> IF has(cache, key) THEN get(cache, key).refCount ELSE 0]

\* The manager's fields after a public method or a timer callback has run.
Commit(m) ==
    /\ cache' = m.cache
    /\ disposeTimeouts' = m.disposeTimeouts
    /\ timers' = m.timers
    /\ created' = m.created
    /\ destroyed' = m.destroyed
    /\ media' = m.media
    /\ orphaned' = m.orphaned

\* -------------------------------------------------------- useRiyilsPlayback
\* useState(true), useState(true), useState(false), useRef(0); the first
\* effect is due, nothing is loaded, the observer has been told nothing, and
\* no onRetry() is waiting for its play() call.
NewViewer ==
    [isMuted |-> TRUE, isPlaying |-> TRUE, hasError |-> FALSE, playTokenRef |-> 0,
     stale |-> TRUE, applying |-> {}, readyState |-> 0, emitted |-> {},
     retried |-> FALSE]

\* The observer's methods the hook calls.
ObserverEvents == {"play", "pause", "mute", "error", "retry"}

\* The hook at the start of one of its steps: emitted collects the observer
\* events of that step alone.
Quiet(h) == [h EXCEPT !.emitted = {}]

\* observer[event](id, ...)
observe(h, event) == [h EXCEPT !.emitted = @ \cup {event}]

\* The slide of the viewer: getActiveId() and getVideoEl(currentIndex).
ViewerId == "a"
ViewerVideo == VideoOf(ViewerId)
ViewerKey == buildKey("viewer", ViewerId)

\* HAVE_NOTHING, and HAVE_CURRENT_DATA, the readyState waitForReady asks for.
HaveNothing == 0
HaveCurrentData == 2

\* `video.readyState >= 2`
IsReady(readyState) == readyState >= HaveCurrentData

\* The request applyPlayback hands to play(), isSpeedUp being false.
ViewerRequest(isMuted) ==
    [scope |-> "viewer", id |-> ViewerId, video |-> ViewerVideo,
     options |-> [muted |-> isMuted, playbackRate |-> 1, allowAutoMute |-> TRUE]]

\* An applyPlayback call suspended at one of its awaits: its token, the
\* isMuted it closed over, the await, and the token of its play() call.
Applying(token, isMuted, pc, call) ==
    [token |-> token, isMuted |-> isMuted, pc |-> pc, call |-> call]

\* The applyPlayback calls whose waitForReady is pending.
Waiting(h) == {run \in h.applying : run.pc = "ready"}

\* The applyPlayback call, if any, whose play() promise has just settled.
Due == {run \in viewer.applying : run.pc = "play" /\ run.call = settled.token}

\* Mutant of IsLatest: the token is not compared.
IsLatestAlways(h, run) == TRUE

\* `playTokenRef.current !== token` negated.
IsLatest(h, run) == h.playTokenRef = run.token

\* A state setter was called with a new value: the callback's identity
\* changes and the effect is due.
Rendered(h) ==
    [h EXCEPT !.stale = @ \/ h.isMuted # viewer.isMuted \/ h.isPlaying # viewer.isPlaying
                          \/ h.hasError # viewer.hasError]

\* applyPlayback after `await playbackController.play(...)` gave result (a
\* rejection ends the call there), the element's muted flag being elementMuted.
AfterPlay(h, run, result, elementMuted) ==
    IF ~IsLatest(h, run) \/ result = "rejected" THEN h
    ELSE IF result = "playing"
    THEN IF elementMuted # run.isMuted
         THEN observe(observe([h EXCEPT !.isMuted = elementMuted], "play"), "mute")
         ELSE observe(h, "play")
    ELSE IF result = "blocked"
    THEN observe([h EXCEPT !.isMuted = TRUE, !.isPlaying = FALSE], "mute")
    ELSE [h EXCEPT !.isPlaying = FALSE]


\* ------------------------------------------------------ useCarouselPlayback
\* The element of the slide, videoRef.current.
SlideVideo == "v1"

\* What the browser does with a play request of the carousel, which is muted.
SlideRequests == {"allowed", "NotAllowedError"}

\* The props of the hook that its effects depend on.
SlideProps == [isActive : BOOLEAN, isPreview : BOOLEAN, shouldLoad : BOOLEAN]

\* `null` in timerRef and retryRef.
NoTimeout == 0

\* The hook as constructed and not yet mounted, under the props p.
NewSlide(p) ==
    [isActive |-> p.isActive, isPreview |-> p.isPreview, shouldLoad |-> p.shouldLoad,
     hasError |-> FALSE, mountedRef |-> FALSE, unmounted |-> FALSE,
     timerRef |-> NoTimeout, retryRef |-> NoTimeout,
     timeouts |-> {}, ids |-> 0, plays |-> <<>>, played |-> 0, events |-> {}]

\* The hook and its element as a handler finds them, no event emitted yet.
Slide ==
    [hook |-> [carousel EXCEPT !.events = {}],
     paused |-> paused[SlideVideo], currentTime |-> currentTime[SlideVideo],
     muted |-> muted[SlideVideo], playbackRate |-> playbackRate[SlideVideo]]

\* An observer callback is called.
emit(s, event) == [s EXCEPT !.hook.events = @ \cup {event}]

\* clearTimers(): clearTimeout on the two refs that are set, which become null.
clearTimers(s) ==
    [s EXCEPT !.hook.timeouts =
                  {t \in @ : /\ s.hook.timerRef = NoTimeout \/ t.id # s.hook.timerRef
                             /\ s.hook.retryRef = NoTimeout \/ t.id # s.hook.retryRef},
              !.hook.timerRef = NoTimeout,
              !.hook.retryRef = NoTimeout]

\* window.setTimeout(callback, ms): the timer, armed under the next id; the
\* callback is tryPlay or the preview's end, of the run with isActive and isPreview.
setTimeout(s, kind, isActive, isPreview) ==
    [s EXCEPT !.hook.ids = @ + 1,
              !.hook.timeouts = @ \cup {[id |-> s.hook.ids + 1, kind |-> kind,
                                         isActive |-> isActive, isPreview |-> isPreview]}]

\* `retryRef.current = setTimeout(tryPlay, RETRY_MS)`
armRetry(s, isActive, isPreview) ==
    [setTimeout(s, "retry", isActive, isPreview) EXCEPT !.hook.retryRef = s.hook.ids + 1]

\* `timerRef.current = setTimeout(..., PREVIEW_DURATION_MS)`
armPreview(s, isActive, isPreview) ==
    [setTimeout(s, "preview", isActive, isPreview) EXCEPT !.hook.timerRef = s.hook.ids + 1]

\* The tryPlay calls whose play request was pending when the element left
\* playback: their promises reject with AbortError.
AbortedPlays(P) ==
    [i \in DOMAIN P |->
        IF P[i].request = "allowed" THEN [P[i] EXCEPT !.request = "aborted"] ELSE P[i]]

\* The tryPlay calls whose play request was pending when the element failed.
FailedPlays(P) ==
    [i \in DOMAIN P |->
        IF P[i].request = "allowed" THEN [P[i] EXCEPT !.request = "NotSupportedError"]
        ELSE P[i]]

\* video.pause()
pause(s) == IF s.paused THEN s ELSE [s EXCEPT !.paused = TRUE, !.hook.plays = AbortedPlays(@)]

\* video.load(): the element leaves playback and returns to its start.
load(s) == [pause(s) EXCEPT !.currentTime = 0]

\* video.play() is called: the browser's decision on the request.
play(s, request) ==
    [s EXCEPT !.paused = IF request = "allowed" THEN FALSE ELSE @,
              !.hook.played = @ + 1]

\* tryPlay() of the effect run with isActive and isPreview, up to its await.
tryPlay(s, isActive, isPreview, request) ==
    [play(s, request) EXCEPT
        !.hook.plays = Append(@, [request |-> request, isActive |-> isActive,
                                  isPreview |-> isPreview])]

\* tryPlay resumes after `await video.play()` of run, resolved or rejected.
afterPlay(s, run) ==
    IF Settlement(run.request) = "resolved"
    THEN IF ~s.hook.mountedRef \/ (~run.isActive /\ ~run.isPreview)
         THEN pause(s)
         ELSE LET s1 == emit(s, IF run.isActive THEN "play:auto" ELSE "play:resume")
              IN  IF run.isPreview /\ ~run.isActive
                  THEN armPreview(s1, run.isActive, run.isPreview)
                  ELSE s1
    ELSE IF ~s.hook.mountedRef THEN s
         ELSE armRetry(s, run.isActive, run.isPreview)

\* The playback effect re-runs: the cleanup of its last run, then its body.
playbackEffect(s, request) ==
    LET s1 == clearTimers(clearTimers(s))
    IN  IF ~s.hook.shouldLoad \/ s.hook.hasError THEN s1
        ELSE LET s2 == [s1 EXCEPT !.muted = TRUE, !.playbackRate = 1]
             IN  IF s.hook.isActive \/ s.hook.isPreview
                 THEN tryPlay(s2, s.hook.isActive, s.hook.isPreview, request)
                 ELSE emit([pause(s2) EXCEPT !.currentTime = 0], "pause:auto")

\* The second effect: `v.play().catch(() => {})` on an active slide.
activeEffect(s, request) ==
    IF ~s.hook.hasError /\ s.hook.shouldLoad /\ s.hook.isActive
    THEN play(s, request)
    ELSE s
\* -------------------------------------------------------- useIosSafariGuard
\* useRef(0), useRef(null), useRef(true) and both effects run: the listeners
\* are added on iOS Safari only. now is Date.now() in units of 300 ms, frames
\* the animation frames requested and not cancelled, timeouts the pending
\* timers of onOrientationChange; ran and invoked tell what the last step was
\* and which callbacks it called.
NewGuard(ios) ==
    [ios |-> ios, mounted |-> TRUE, mountedRef |-> TRUE, listening |-> ios,
     lastRetryTs |-> 0, rafRef |-> 0, frames |-> {}, ids |-> 0, timeouts |-> 0,
     now |-> 1, ran |-> "none", invoked |-> {}]

\* The guard at the start of one of its steps.
Stepping(g, what) == [g EXCEPT !.ran = what, !.invoked = {}]

\* Mutant of IsMounted: the ref is not read.
IsMountedAlways(g) == TRUE

\* `mountedRef.current`
IsMounted(g) == g.mountedRef

\* `if (rafRef.current) cancelAnimationFrame(rafRef.current)`
cancelFrame(g) == [g EXCEPT !.frames = @ \ {g.rafRef}]

\* handleReset()
handleReset(g, active) ==
    IF ~IsMounted(g) THEN g
    ELSE IF active THEN [g EXCEPT !.invoked = @ \cup {"onReset"}] ELSE g

\* handleRetry(): the frame requested last is cancelled and one is requested.
handleRetry(g) ==
    LET id == g.ids + 1
    IN  [cancelFrame(g) EXCEPT !.rafRef = id, !.ids = id, !.frames = @ \cup {id}]

\* safeRetry()
safeRetry(g) ==
    IF g.now - g.lastRetryTs < 1 THEN g
    ELSE LET g1 == [g EXCEPT !.lastRetryTs = g.now]
         IN  IF IsMounted(g1) THEN [g1 EXCEPT !.invoked = @ \cup {"onRetry"}] ELSE g1

\* The callback handleRetry hands to requestAnimationFrame.
frameCallbackOf(g, active) ==
    IF ~IsMounted(g) THEN g
    ELSE IF active THEN safeRetry(g) ELSE g

\* ----------------------------------------------------- useIosAutoplayUnlock
\* The hook instances of the page, and the listeners one adds.
Instances == {1, 2, 3}
UnlockEvents == {"touchstart", "click"}

\* An instance that is not mounted, and one after useRef(false).
NoInstance == [mounted |-> FALSE, container |-> FALSE, armedRef |-> FALSE, listening |-> {}]
NewInstance(container) ==
    [mounted |-> TRUE, container |-> container, armedRef |-> FALSE, listening |-> {}]

\* `let unlocked = false` of the module, the primings `audio.play()` so far,
\* and the instances.
NewUnlock(ios) ==
    [ios |-> ios, unlocked |-> FALSE, primed |-> 0, hooks |-> [i \in Instances |-> NoInstance]]

\* cleanup() of instance i
cleanup(u, i) == [u EXCEPT !.hooks[i].listening = {}]

\* The body of the effect of instance i.
armEffect(u, i) ==
    IF u.unlocked \/ ~u.ios \/ ~u.hooks[i].container THEN u
    ELSE IF ~u.hooks[i].armedRef
    THEN [u EXCEPT !.hooks[i].armedRef = TRUE, !.hooks[i].listening = UnlockEvents]
    ELSE u

\* Mutant of unlockOf: the latch is not read.
unlockAgain(u, i) ==
    cleanup([u EXCEPT !.unlocked = TRUE, !.hooks[i].armedRef = FALSE, !.primed = @ + 1], i)

\* unlock() of instance i
unlockOf(u, i) ==
    IF u.unlocked THEN u
    ELSE cleanup([u EXCEPT !.unlocked = TRUE, !.hooks[i].armedRef = FALSE,
                           !.primed = @ + 1], i)

\* ------------------------------------------------------------------ actions
\* new Map() twice; no element has a source yet.
InitSources ==
    /\ cache = <<>>
    /\ disposeTimeouts = [k \in Keys |-> NoTimer]
    /\ timers = {}
    /\ created = 0
    /\ destroyed = {}
    /\ media = [h \in 1..MaxEntries |-> "none"]
    /\ orphaned = [h \in 1..MaxEntries |-> 0]
    /\ src = [v \in Videos |-> NoSrc]
    /\ unloaded = [v \in Videos |-> TRUE]
    /\ last = NoOp

\* No navigator.connection, a wide window, nothing resolved yet.
InitSignals ==
    /\ connection = NoConnection
    /\ innerWidth = 768
    /\ source = Undefined
    /\ resolved = Undefined

\* useState and useRef of the two hooks, before their effects have run.
InitHooks ==
    /\ viewer = NewViewer
    /\ carousel = NewSlide([isActive |-> FALSE, isPreview |-> FALSE, shouldLoad |-> FALSE])
    /\ guard = NewGuard(TRUE)
    /\ autoplay = NewUnlock(TRUE)

Init ==
    /\ sessions = [k \in Keys |-> None]
    /\ globalToken = 0
    /\ calls = <<>>
    /\ settled = NoCall
    /\ paused = [v \in Videos |-> TRUE]
    /\ muted = [v \in Videos |-> FALSE]
    /\ playbackRate = [v \in Videos |-> 1]
    /\ currentTime = [v \in Videos |-> 0]
    /\ frameCallback \in BOOLEAN
    /\ hlsSupported = TRUE
    /\ InitSources
    /\ InitSignals
    /\ InitHooks

\* PlaybackController.play(req) up to its await: cancelAllExcept, nextToken,
\* cancelSession, sessions.set, then playDeterministic up to video.play().
PlaySync(req, request) ==
    /\ Len(calls) < MaxCalls
    /\ LET key == buildKey(req.scope, req.id)
           others == CancelAllExceptKeys(key)
           S1 == SessionsWithout(sessions, others)
           P1 == PausedBy(paused, sessions, others)
           token == nextToken(globalToken)
           S2 == SessionsWithout(S1, {key})
           P2 == PausedBy(P1, S1, {key})
       IN  /\ globalToken' = token
           /\ sessions' = [S2 EXCEPT ![key] = [token |-> token, video |-> req.video]]
           /\ muted' = [muted EXCEPT ![req.video] = req.options.muted]
           /\ playbackRate' = [playbackRate EXCEPT ![req.video] = req.options.playbackRate]
           /\ paused' = IssuePlay(P2, req.video, request)
           /\ calls' = Append(Aborted(calls, paused, P2), [key |-> key, video |-> req.video,
                    muted |-> req.options.muted,
                    allowAutoMute |-> req.options.allowAutoMute,
                    token |-> token, pc |-> "play", request |-> request,
                    attempts |-> 1, start |-> 0,
                    engine |-> "none", result |-> "pending"])
    /\ UNCHANGED <<settled, currentTime, frameCallback>>

\* play(req) called by a client other than the hooks.
Play(req, request) ==
    /\ PlaySync(req, request)
    /\ UNCHANGED <<sourceVars, signalVars, hookVars>>

\* The promise of video.play() settles and playDeterministic resumes; retry is
\* what the browser does with the second play request, should one be issued.
SettlePlay(c, retry) ==
    /\ InFlight(c) /\ calls[c].pc = "play"
    /\ LET call == calls[c]
           attempt == AttemptPlay(Settlement(call.request))
           next == IF attempt = "ok" THEN "verify"
                   ELSE IF call.attempts = 1
                   THEN AfterFirstRejected(attempt, call.allowAutoMute)
                   ELSE AfterSecondRejected(attempt)
       IN  IF next = "verify"
           THEN /\ calls' = [calls EXCEPT ![c] = BeginVerify(call)]
                /\ UNCHANGED <<sessions, settled, paused, muted>>
           ELSE IF next = "retry"
           THEN /\ muted' = MutedForRetry(muted, call.video)
                /\ paused' = IssuePlay(paused, call.video, retry)
                /\ calls' = [calls EXCEPT ![c] = [call EXCEPT !.request = retry, !.attempts = 2]]
                /\ UNCHANGED <<sessions, settled>>
           ELSE Return(c, next, paused) /\ UNCHANGED muted
    /\ UNCHANGED <<globalToken, playbackRate, currentTime, frameCallback, sourceVars, signalVars, hookVars>>

\* verifyProgressByFrames settles with byFrames: true ends verifyProgress,
\* false falls through to the fast time sample.
AfterFrames(c, byFrames) ==
    /\ IF byFrames
       THEN Return(c, "playing", paused)
       ELSE /\ calls' = [calls EXCEPT ![c] = NextSample(calls[c], "fast")]
            /\ UNCHANGED <<sessions, settled, paused>>
    /\ UNCHANGED <<globalToken, muted, playbackRate, currentTime, frameCallback, sourceVars, signalVars, hookVars>>

\* The browser presents a frame: the callback calls done(currentTime > start).
FrameCallback(c) ==
    /\ InFlight(c) /\ calls[c].pc = "frames"
    /\ AfterFrames(c, Progressed(currentTime[calls[c].video], calls[c].start))

\* Mutant of FrameTimeout: verifyProgressByFrames arms no timeout.
FrameNeverTimesOut(c) ==
    /\ InFlight(c) /\ calls[c].pc = "frames"
    /\ FALSE
    /\ AfterFrames(c, FALSE)

\* The timeout of verifyProgressByFrames fires first: done(false).
FrameTimeout(c) ==
    /\ InFlight(c) /\ calls[c].pc = "frames"
    /\ AfterFrames(c, FALSE)

\* The sleep of the fast verifyProgressByTime ends.
FastElapsed(c) ==
    /\ InFlight(c) /\ calls[c].pc = "fast"
    /\ IF Progressed(currentTime[calls[c].video], calls[c].start)
       THEN Return(c, "playing", paused)
       ELSE /\ calls' = [calls EXCEPT ![c] = NextSample(calls[c], "slow")]
            /\ UNCHANGED <<sessions, settled, paused>>
    /\ UNCHANGED <<globalToken, muted, playbackRate, currentTime, frameCallback, sourceVars, signalVars, hookVars>>

\* The sleep of the slow verifyProgressByTime ends: 'playing', or video.pause()
\* and the stall result.
SlowElapsed(c) ==
    /\ InFlight(c) /\ calls[c].pc = "slow"
    /\ IF Progressed(currentTime[calls[c].video], calls[c].start)
       THEN Return(c, "playing", paused)
       ELSE Return(c, Stalled(calls[c].attempts), [paused EXCEPT ![calls[c].video] = TRUE])
    /\ UNCHANGED <<globalToken, muted, playbackRate, currentTime, frameCallback, sourceVars, signalVars, hookVars>>

\* Playback of an unpaused element advances its currentTime.
Advance(v) ==
    /\ ~paused[v]
    /\ currentTime[v] < MaxTime
    /\ currentTime' = [currentTime EXCEPT ![v] = @ + 1]
    /\ UNCHANGED <<sessions, globalToken, calls, settled, paused, muted, playbackRate, frameCallback, sourceVars, signalVars, hookVars>>

\* Mutant of reset: the session's element also loses its source.
resetUnbinding(key) ==
    /\ sessions' = SessionsWithout(sessions, {key})
    /\ paused' = PausedBy(paused, sessions, {key})
    /\ calls' = Aborted(calls, paused, PausedBy(paused, sessions, {key}))
    /\ src' = [v \in Videos |->
                 IF sessions[key] # None /\ sessions[key].video = v THEN NoSrc ELSE src[v]]
    /\ UNCHANGED <<globalToken, settled, muted, playbackRate, currentTime, frameCallback,
                   cache, disposeTimeouts, timers, created, destroyed, media, orphaned,
                   unloaded, hlsSupported, last, signalVars, hookVars>>

\* PlaybackController.reset(scope, id): cancelSession(buildKey(scope, id)).
reset(key) ==
    /\ sessions' = SessionsWithout(sessions, {key})
    /\ paused' = PausedBy(paused, sessions, {key})
    /\ calls' = Aborted(calls, paused, PausedBy(paused, sessions, {key}))
    /\ UNCHANGED <<globalToken, settled, muted, playbackRate, currentTime, frameCallback, sourceVars, signalVars, hookVars>>

\* PlaybackController.cancelAllExcept(key) called from outside play().
cancelAllExcept(key) ==
    /\ sessions' = SessionsWithout(sessions, CancelAllExceptKeys(key))
    /\ paused' = PausedBy(paused, sessions, CancelAllExceptKeys(key))
    /\ calls' = Aborted(calls, paused, PausedBy(paused, sessions, CancelAllExceptKeys(key)))
    /\ UNCHANGED <<globalToken, settled, muted, playbackRate, currentTime, frameCallback, sourceVars, signalVars, hookVars>>

\* PlaybackController.resetAll(): cancelSession on every stored key.
resetAll ==
    /\ sessions' = SessionsWithout(sessions, Keys)
    /\ paused' = PausedBy(paused, sessions, Keys)
    /\ calls' = Aborted(calls, paused, PausedBy(paused, sessions, Keys))
    /\ UNCHANGED <<globalToken, settled, muted, playbackRate, currentTime, frameCallback, sourceVars, signalVars, hookVars>>


Next ==
    \/ \E req \in ArbitrationRequests, r \in PlayRequests : Play(req, r)
    \/ \E c \in 1..MaxCalls, r \in PlayRequests : SettlePlay(c, r)
    \/ \E c \in 1..MaxCalls : FrameCallback(c)
    \/ \E c \in 1..MaxCalls : FrameTimeout(c)
    \/ \E c \in 1..MaxCalls : FastElapsed(c)
    \/ \E c \in 1..MaxCalls : SlowElapsed(c)
    \/ \E v \in Videos : Advance(v)
    \/ \E k \in Keys : reset(k)
    \/ \E k \in Keys : cancelAllExcept(k)
    \/ resetAll

Spec == Init /\ [][Next]_vars

\* The engine on its own: one play() call at a time on one element, every
\* option drawn, and no other controller operation.
PlayAlone(req, request) ==
    /\ \A c \in 1..Len(calls) : ~InFlight(c)
    /\ Play(req, request)

EngineNext ==
    \/ \E req \in EngineRequests, r \in PlayRequests : PlayAlone(req, r)
    \/ \E c \in 1..MaxCalls, r \in PlayRequests : SettlePlay(c, r)
    \/ \E c \in 1..MaxCalls : FrameCallback(c)
    \/ \E c \in 1..MaxCalls : FrameTimeout(c)
    \/ \E c \in 1..MaxCalls : FastElapsed(c)
    \/ \E c \in 1..MaxCalls : SlowElapsed(c)
    \/ \E v \in Videos : Advance(v)

EngineSpec == Init /\ [][EngineNext]_vars

\* ------------------------------------------- actions of the source manager
\* The sources the manager is called with: nothing, a progressive file, a
\* manifest, and a variant set of the two.
ManagerSources ==
    {Undefined, Str(<<"a", ".mp4">>), Str(<<"b", ".m3u8">>),
     [low |-> Str(<<"a", ".mp4">>), mid |-> Undefined, high |-> Str(<<"b", ".m3u8">>)]}

\* What the manager's methods leave alone.
ControllerIdle == <<sessions, globalToken, settled, muted, playbackRate, frameCallback>>

\* VideoSourceManager.preload(key, src)
preload(key, s) ==
    /\ LET m == ensureEntry(Manager, key, s)
       IN  /\ m.created <= MaxEntries
           /\ IF m.entry = 0
              THEN Commit(m)
              ELSE Commit(arm(cancelPendingDispose(m, key),
                              [kind |-> "preload", key |-> key, entry |-> m.entry,
                               hls |-> get(m.cache, key).hls]))
    /\ last' = IF Truthy(resolveFinalUrl(s))
               THEN Op("preload", key, "none", "none")
               ELSE last
    /\ UNCHANGED <<ControllerIdle, calls, paused, currentTime, src, unloaded, hlsSupported, signalVars, hookVars>>

\* `entry.refCount += 1`
attachCount(refCount) == refCount + 1

\* VideoSourceManager.attach(video, key, src)
attach(video, key, s) ==
    /\ LET m == ensureEntry(Manager, key, s)
           entry == get(m.cache, key)
       IN  /\ m.created <= MaxEntries
           /\ IF m.entry = 0
              THEN Commit(m) /\ UNCHANGED <<src, unloaded>>
              ELSE /\ attachCount(entry.refCount) <= MaxRef
                   /\ LET m1 == setRefCount(m, key, attachCount(entry.refCount))
                      IN  IF entry.hls # 0
                          THEN /\ Commit([m1 EXCEPT !.media[entry.hls] = video])
                               /\ src' = [src EXCEPT ![video] = Blob(entry.hls)]
                               /\ unloaded' = [unloaded EXCEPT ![video] = FALSE]
                          ELSE /\ Commit(m1)
                               /\ src' = [src EXCEPT ![video] = entry.url]
                               /\ unloaded' = [unloaded EXCEPT ![video] = FALSE]
    /\ last' = IF Truthy(resolveFinalUrl(s))
               THEN Op("attach", key, video, "none")
               ELSE last
    /\ UNCHANGED <<ControllerIdle, calls, paused, currentTime, hlsSupported, signalVars, hookVars>>

\* `scope === 'viewer' && video`
MustRelease(scope, video) == scope = "viewer" /\ video # "none"

\* `Math.max(0, entry.refCount - 1)`
decrement(refCount) == IF refCount - 1 > 0 THEN refCount - 1 ELSE 0

\* detachMedia(video): pause(), removeAttribute('src'), load().
detachMedia(video) ==
    /\ paused' = [paused EXCEPT ![video] = TRUE]
    /\ calls' = Aborted(calls, paused, [paused EXCEPT ![video] = TRUE])
    /\ src' = [src EXCEPT ![video] = NoSrc]
    /\ unloaded' = [unloaded EXCEPT ![video] = TRUE]
    /\ currentTime' = [currentTime EXCEPT ![video] = 0]

\* VideoSourceManager.detach(key, video?, scope?)
detach(key, video, scope) ==
    /\ LET entry == get(cache, key)
       IN  IF entry = NoEntry
           THEN UNCHANGED <<cache, disposeTimeouts, timers, created, destroyed, media, orphaned,
                            src, unloaded, hlsSupported, calls, paused, currentTime>>
           ELSE /\ LET m == setRefCount(Manager, key, decrement(entry.refCount))
                   IN  IF decrement(entry.refCount) <= 0
                       THEN Commit(arm(cancelPendingDispose(m, key),
                                       [kind |-> "detach", key |-> key, entry |-> 0, hls |-> 0]))
                       ELSE Commit(m)
                /\ IF MustRelease(scope, video)
                   THEN detachMedia(video)
                   ELSE UNCHANGED <<calls, paused, currentTime, src, unloaded>>
                /\ UNCHANGED hlsSupported
    /\ last' = Op("detach", key, video, scope)
    /\ UNCHANGED <<ControllerIdle, signalVars, hookVars>>

\* Mutant of resetEntry: an entry in use is spared.
resetUnlessReferenced(m, key) ==
    LET m1 == cancelPendingDispose(m, key)
        entry == get(m1.cache, key)
    IN  IF entry = NoEntry \/ entry.refCount > 0 THEN m1
        ELSE delete(destroy(m1, entry.hls), key)

\* Mutant of resetEntry: the pending disposal timer is left armed.
resetKeepingTimer(m, key) ==
    LET entry == get(m.cache, key)
    IN  IF entry = NoEntry THEN m
        ELSE delete(destroy(m, entry.hls), key)

\* The body of VideoSourceManager.reset(key).
resetEntry(m, key) ==
    LET m1 == cancelPendingDispose(m, key)
        entry == get(m1.cache, key)
    IN  IF entry = NoEntry THEN m1
        ELSE delete(destroy(m1, entry.hls), key)

\* resetVideoSource(scope, id): videoSourceManager.reset(buildKey(scope, id)).
resetVideoSource(key) ==
    /\ Commit(resetEntry(Manager, key))
    /\ last' = Op("reset", key, "none", "none")
    /\ UNCHANGED <<ControllerIdle, calls, paused, currentTime, src, unloaded, hlsSupported, signalVars, hookVars>>

\* The refCount the callback of timer t reads: the preload timer reads the
\* entry object it closed over, the detach timer the entry now cached.
refCountSeen(t) ==
    IF t.kind = "detach" THEN get(cache, t.key).refCount
    ELSE IF \E i \in 1..Len(cache) : cache[i].id = t.entry
    THEN cache[CHOOSE i \in 1..Len(cache) : cache[i].id = t.entry].refCount
    ELSE orphaned[t.entry]

\* A disposal timer fires: the callbacks armed by preload and by detach.
dispose(t) ==
    /\ t \in timers
    /\ LET m == [Manager EXCEPT !.timers = @ \ {t}]
           m1 == IF t.kind = "preload"
                 THEN IF refCountSeen(t) = 0 THEN delete(destroy(m, t.hls), t.key) ELSE m
                 ELSE IF has(cache, t.key) /\ refCountSeen(t) <= 0
                      THEN delete(destroy(m, get(cache, t.key).hls), t.key)
                      ELSE m
       IN  Commit([m1 EXCEPT !.disposeTimeouts[t.key] = NoTimer])
    /\ last' = Op("dispose", t.key, "none", "none")
    /\ UNCHANGED <<ControllerIdle, calls, paused, currentTime, src, unloaded, hlsSupported, signalVars, hookVars>>

\* The keys and the element the manager is called with: a key of either scope,
\* and one element, given to every key in turn.
SourceKeys == {buildKey("viewer", "a"), buildKey("carousel", "a")}
SourceVideos == {"v1"}

\* The controller idle; the manager's element is handed over playing.
SourceInit ==
    /\ sessions = [k \in Keys |-> None]
    /\ globalToken = 0
    /\ calls = <<>>
    /\ settled = NoCall
    /\ paused = [v \in Videos |-> v \notin SourceVideos]
    /\ muted = [v \in Videos |-> FALSE]
    /\ playbackRate = [v \in Videos |-> 1]
    /\ currentTime = [v \in Videos |-> 0]
    /\ frameCallback = TRUE
    /\ hlsSupported = TRUE
    /\ InitSources
    /\ InitSignals
    /\ InitHooks

SourceNext ==
    \/ \E k \in SourceKeys, s \in ManagerSources : preload(k, s)
    \/ \E v \in SourceVideos, k \in SourceKeys, s \in ManagerSources : attach(v, k, s)
    \/ \E k \in SourceKeys, v \in SourceVideos \cup {"none"}, sc \in PlaybackScope \cup {"none"} :
            detach(k, v, sc)
    \/ \E k \in SourceKeys : resetVideoSource(k)
    \/ \E t \in timers : dispose(t)

SourceSpec == SourceInit /\ [][SourceNext]_vars

\* What the event loop guarantees of an armed timer: it fires.
SourceLiveSpec == SourceSpec /\ \A k \in SourceKeys : WF_vars(\E t \in timers : t.key = k /\ dispose(t))

\* ------------------------------------------------ actions of the resolver
\* The controller and the manager idle, under any network and viewport.
ResolverInit ==
    /\ sessions = [k \in Keys |-> None]
    /\ globalToken = 0
    /\ calls = <<>>
    /\ settled = NoCall
    /\ paused = [v \in Videos |-> TRUE]
    /\ muted = [v \in Videos |-> FALSE]
    /\ playbackRate = [v \in Videos |-> 1]
    /\ currentTime = [v \in Videos |-> 0]
    /\ frameCallback = TRUE
    /\ hlsSupported = TRUE
    /\ InitSources
    /\ connection \in {NoConnection} \cup ConnectionInfo
    /\ innerWidth \in InnerWidths
    /\ source = Undefined
    /\ resolved = Undefined
    /\ InitHooks

\* resolveFinalUrl(src) is called, as by useVideoSource, and returns.
Resolve(s) ==
    /\ source' = s
    /\ resolved' = resolveFinalUrl(s)
    /\ UNCHANGED <<ControllerIdle, calls, paused, currentTime, sourceVars, connection, innerWidth, hookVars>>

ResolverNext == \E s \in Sources : Resolve(s)

ResolverSpec == ResolverInit /\ [][ResolverNext]_vars

\* ------------------------------- the controller beside the source manager

\* The source the viewer's element is attached under: an adaptive stream.
BoundSources == {Str(<<"b", ".m3u8">>)}

\* The play() calls the viewer issues for that element.
BoundRequests ==
    {r \in EngineRequests : r.video = "v1" /\ r.options.playbackRate = 1 /\ ~r.options.muted}

\* The controller and the engine working on elements that the source manager
\* has bound: the viewer attaches and releases v1 while play() calls run.
BoundNext ==
    \/ \E req \in BoundRequests, r \in PlayRequests : PlayAlone(req, r)
    \/ \E c \in 1..MaxCalls, r \in PlayRequests : SettlePlay(c, r)
    \/ \E c \in 1..MaxCalls : FrameCallback(c)
    \/ \E c \in 1..MaxCalls : FrameTimeout(c)
    \/ \E c \in 1..MaxCalls : FastElapsed(c)
    \/ \E c \in 1..MaxCalls : SlowElapsed(c)
    \/ \E v \in Videos : Advance(v)
    \/ \E k \in SourceKeys : reset(k)
    \/ \E k \in SourceKeys : cancelAllExcept(k)
    \/ resetAll
    \/ \E s \in BoundSources : attach("v1", buildKey("viewer", "a"), s)
    \/ detach(buildKey("viewer", "a"), "v1", "viewer")
    \/ \E t \in timers : dispose(t)

BoundSpec == Init /\ [][BoundNext]_vars

\* --------------------------------------------- actions of the viewer hook
\* The hook's play() call: PlaybackController.play up to its await, for the
\* applyPlayback call of token under the isMuted it closed over.
ViewerPlay(h, token, isMuted, request) ==
    /\ PlaySync(ViewerRequest(isMuted), request)
    /\ viewer' = [h EXCEPT !.applying =
                      @ \cup {Applying(token, isMuted, "play", nextToken(globalToken))},
                            !.retried = FALSE]
    /\ UNCHANGED <<sourceVars, signalVars, carousel, platformVars>>

\* playbackController.reset('viewer', id) and video.pause().
ViewerPause(h) ==
    /\ viewer' = h
    /\ sessions' = SessionsWithout(sessions, {ViewerKey})
    /\ paused' = [paused EXCEPT ![ViewerVideo] = TRUE]
    /\ calls' = Aborted(calls, paused, [paused EXCEPT ![ViewerVideo] = TRUE])
    /\ UNCHANGED <<globalToken, settled, muted, playbackRate, currentTime, frameCallback,
                   sourceVars, signalVars, carousel, platformVars>>

\* Nothing but the hook changes.
ViewerOnly(h) ==
    /\ viewer' = h
    /\ UNCHANGED <<sessions, globalToken, calls, settled, paused, muted, playbackRate,
                   currentTime, frameCallback, sourceVars, signalVars, carousel, platformVars>>

\* applyPlayback() of the render the hook h is in, up to its first await that
\* suspends it; a ready element resolves waitForReady at once.
applyPlayback(h, request) ==
    IF h.hasError THEN ViewerOnly(h)
    ELSE /\ h.playTokenRef < MaxApply
         /\ LET token == h.playTokenRef + 1
                h1 == [h EXCEPT !.playTokenRef = token]
            IN  IF ~h.isPlaying THEN ViewerPause(observe(h1, "pause"))
                ELSE IF IsReady(h.readyState)
                THEN ViewerPlay(h1, token, h.isMuted, request)
                ELSE ViewerOnly([h1 EXCEPT !.applying =
                                    @ \cup {Applying(token, h.isMuted, "ready", 0)}])

\* The effect runs applyPlayback after a render that changed its identity.
Effect(request) ==
    /\ viewer.stale /\ Due = {}
    /\ applyPlayback([Quiet(viewer) EXCEPT !.stale = FALSE], request)

\* The element fires 'canplay' and 'loadeddata': every pending waitForReady
\* resolves true, and the latest applyPlayback call goes on to play().
CanPlay(request) ==
    /\ ~IsReady(viewer.readyState) /\ Due = {}
    /\ LET h == [Quiet(viewer) EXCEPT !.readyState = HaveCurrentData,
                                      !.applying = @ \ Waiting(viewer)]
           latest == {run \in Waiting(viewer) : IsLatest(viewer, run)}
       IN  IF latest = {} THEN ViewerOnly(h)
           ELSE \E run \in latest : ViewerPlay(h, run.token, run.isMuted, request)

\* The timeout of the waitForReady of run fires: finish(video.readyState >= 2),
\* and applyPlayback returns unless the element is ready and the call the latest.
ReadyTimeout(run, request) ==
    /\ run \in Waiting(viewer) /\ Due = {}
    /\ LET h == [Quiet(viewer) EXCEPT !.applying = @ \ {run}]
       IN  IF IsReady(viewer.readyState) /\ IsLatest(viewer, run)
           THEN ViewerPlay(h, run.token, run.isMuted, request)
           ELSE ViewerOnly(h)

\* togglePlay()
togglePlay ==
    /\ ~viewer.stale /\ Due = {}
    /\ ~viewer.hasError
    /\ ViewerOnly(Rendered([viewer EXCEPT !.isPlaying = ~@,
                                           !.emitted = {IF viewer.isPlaying THEN "pause" ELSE "play"}]))

\* toggleMute()
toggleMute ==
    /\ ~viewer.stale /\ Due = {}
    /\ ViewerOnly(Rendered([viewer EXCEPT !.isMuted = ~@, !.emitted = {"mute"}]))

\* The element fires 'error': every pending waitForReady resolves false, and
\* the hook's onError runs.
ViewerError ==
    /\ ~viewer.stale /\ Due = {}
    /\ viewer' = Rendered([viewer EXCEPT !.applying = @ \ Waiting(viewer),
                                         !.hasError = TRUE, !.isPlaying = FALSE,
                                         !.emitted = {"error"}])
    /\ sessions' = SessionsWithout(sessions, {ViewerKey})
    /\ paused' = PausedBy(paused, sessions, {ViewerKey})
    /\ calls' = Aborted(calls, paused, PausedBy(paused, sessions, {ViewerKey}))
    /\ UNCHANGED <<globalToken, settled, muted, playbackRate, currentTime, frameCallback,
                   sourceVars, signalVars, carousel, platformVars>>

\* onRetry(): the two setters, reset of the controller and of the cache,
\* video.load(), and applyPlayback() of the render onRetry belongs to, which
\* finds the element unloaded.
onRetry ==
    /\ ~viewer.stale /\ Due = {}
    /\ LET token == viewer.playTokenRef + 1
           h == [viewer EXCEPT !.hasError = FALSE, !.isPlaying = TRUE,
                               !.readyState = HaveNothing, !.emitted = {"retry"},
                               !.retried = TRUE]
           h1 == IF viewer.hasError THEN h
                 ELSE IF ~viewer.isPlaying
                 THEN observe([h EXCEPT !.playTokenRef = token], "pause")
                 ELSE [h EXCEPT !.playTokenRef = token,
                                !.applying = @ \cup {Applying(token, viewer.isMuted, "ready", 0)}]
       IN  /\ h1.playTokenRef <= MaxApply
           /\ viewer' = Rendered(h1)
    /\ sessions' = SessionsWithout(sessions, {ViewerKey})
    /\ paused' = [paused EXCEPT ![ViewerVideo] = TRUE]
    /\ calls' = Aborted(calls, paused, [paused EXCEPT ![ViewerVideo] = TRUE])
    /\ currentTime' = [currentTime EXCEPT ![ViewerVideo] = 0]
    /\ Commit(resetEntry(Manager, ViewerKey))
    /\ last' = Op("reset", ViewerKey, "none", "none")
    /\ UNCHANGED <<globalToken, settled, muted, playbackRate, frameCallback,
                   src, unloaded, hlsSupported, signalVars, carousel, platformVars>>

\* The applyPlayback call whose play() promise has settled resumes.
Resume ==
    \E run \in Due :
        ViewerOnly(Rendered(AfterPlay([Quiet(viewer) EXCEPT !.applying = @ \ {run}], run,
                                      settled.result, muted[ViewerVideo])))

\* A step of the engine or of the element, when no applyPlayback call is due.
ViewerSettlePlay(c, retry) == Due = {} /\ SettlePlay(c, retry)
ViewerFrameCallback(c) == Due = {} /\ FrameCallback(c)
ViewerFrameTimeout(c) == Due = {} /\ FrameTimeout(c)
ViewerFastElapsed(c) == Due = {} /\ FastElapsed(c)
ViewerSlowElapsed(c) == Due = {} /\ SlowElapsed(c)
ViewerAdvance == Due = {} /\ Advance(ViewerVideo)

ViewerNext ==
    \/ \E r \in PlayRequests : Effect(r)
    \/ \E r \in PlayRequests : CanPlay(r)
    \/ \E run \in viewer.applying, r \in PlayRequests : ReadyTimeout(run, r)
    \/ togglePlay
    \/ toggleMute
    \/ ViewerError
    \/ onRetry
    \/ Resume
    \/ \E c \in 1..MaxCalls, r \in PlayRequests : ViewerSettlePlay(c, r)
    \/ \E c \in 1..MaxCalls : ViewerFrameCallback(c)
    \/ \E c \in 1..MaxCalls : ViewerFrameTimeout(c)
    \/ \E c \in 1..MaxCalls : ViewerFastElapsed(c)
    \/ \E c \in 1..MaxCalls : ViewerSlowElapsed(c)
    \/ ViewerAdvance

\* The viewer hook, the controller it alone calls and the engine.
ViewerSpec == Init /\ [][ViewerNext]_vars

\* The effect of useVideoSource for the viewer's slide: its timer of delay 0
\* fires after the mount and attaches the element. Its dependencies (key,
\* scope, shouldLoad, src, videoRef) do not change while the slide is shown,
\* so it runs once.
useVideoSource(s) ==
    /\ Due = {}
    /\ created = 0
    /\ attach(ViewerVideo, ViewerKey, s)

\* The videoUrl of the viewer's slide: a file or an adaptive stream.
ReloadSources == {Str(<<"a", ".mp4">>), Str(<<"b", ".m3u8">>)}

\* The viewer hook beside the source hook of its slide, without the toggles.
ReloadNext ==
    \/ \E s \in ReloadSources : useVideoSource(s)
    \/ \E r \in PlayRequests : Effect(r)
    \/ \E r \in PlayRequests : CanPlay(r)
    \/ \E run \in viewer.applying, r \in PlayRequests : ReadyTimeout(run, r)
    \/ ViewerError
    \/ onRetry
    \/ Resume
    \/ \E c \in 1..MaxCalls, r \in PlayRequests : ViewerSettlePlay(c, r)
    \/ \E c \in 1..MaxCalls : ViewerFrameCallback(c)
    \/ \E c \in 1..MaxCalls : ViewerFrameTimeout(c)
    \/ \E c \in 1..MaxCalls : ViewerFastElapsed(c)
    \/ \E c \in 1..MaxCalls : ViewerSlowElapsed(c)
    \/ ViewerAdvance

ReloadSpec == Init /\ [][ReloadNext]_vars

\* ------------------------------------------ actions of the carousel hook
\* The hook's fields and its element's after a handler: the writes of s.
CommitSlide(s) ==
    /\ s.hook.played <= MaxRequests
    /\ s.hook.ids <= MaxTimeouts
    /\ carousel' = s.hook
    /\ paused' = [paused EXCEPT ![SlideVideo] = s.paused]
    /\ currentTime' = [currentTime EXCEPT ![SlideVideo] = s.currentTime]
    /\ muted' = [muted EXCEPT ![SlideVideo] = s.muted]
    /\ playbackRate' = [playbackRate EXCEPT ![SlideVideo] = s.playbackRate]
    /\ UNCHANGED <<sessions, globalToken, calls, settled, frameCallback, sourceVars, signalVars, viewer, platformVars>>

\* The first commit: mountedRef is set, both effects run.
Mount(request) ==
    /\ ~carousel.mountedRef /\ ~carousel.unmounted
    /\ CommitSlide(activeEffect(playbackEffect([Slide EXCEPT !.hook.mountedRef = TRUE],
                                               request), request))

\* The parent renders the slide with other props: the playback effect re-runs,
\* and the second effect when isActive or shouldLoad changed.
SetProps(p, request) ==
    /\ carousel.mountedRef
    /\ p # [isActive |-> carousel.isActive, isPreview |-> carousel.isPreview,
            shouldLoad |-> carousel.shouldLoad]
    /\ LET s == [Slide EXCEPT !.hook.isActive = p.isActive, !.hook.isPreview = p.isPreview,
                              !.hook.shouldLoad = p.shouldLoad]
           s1 == playbackEffect(s, request)
       IN  CommitSlide(IF p.isActive # carousel.isActive \/ p.shouldLoad # carousel.shouldLoad
                       THEN activeEffect(s1, request)
                       ELSE s1)

\* The element fires 'error', which rejects its pending play promises, and the
\* onError of the hook runs; hasError changing re-runs both effects.
onError ==
    /\ LET s == [Slide EXCEPT !.hook.plays = FailedPlays(@)]
       IN  IF ~carousel.mountedRef THEN CommitSlide(s)
           ELSE LET s1 == emit([s EXCEPT !.hook.hasError = TRUE], "error:decode")
                IN  IF carousel.hasError THEN CommitSlide(s1)
                    ELSE CommitSlide(activeEffect(playbackEffect(s1, "allowed"), "allowed"))

\* retry() of the hook; hasError changing re-runs both effects.
retry(request) ==
    /\ carousel.mountedRef
    /\ LET s == emit(load(emit([Slide EXCEPT !.hook.hasError = FALSE], "retry")), "play:user")
       IN  IF ~carousel.hasError THEN CommitSlide(s)
           ELSE CommitSlide(activeEffect(playbackEffect(s, request), request))

\* The promise of the video.play() of the i-th tryPlay in flight settles.
SettleTryPlay(i) ==
    /\ i \in 1..Len(carousel.plays)
    /\ LET run == carousel.plays[i]
           rest == [j \in 1..(Len(carousel.plays) - 1) |->
                       IF j < i THEN carousel.plays[j] ELSE carousel.plays[j + 1]]
       IN  CommitSlide(afterPlay([Slide EXCEPT !.hook.plays = rest], run))

\* The preview timer t fires: the preview ends and tryPlay is armed again.
PreviewElapsed(t) ==
    /\ t \in carousel.timeouts /\ t.kind = "preview"
    /\ LET s == [Slide EXCEPT !.hook.timeouts = @ \ {t}]
       IN  IF ~carousel.mountedRef THEN CommitSlide(s)
           ELSE CommitSlide(armRetry(emit([pause(s) EXCEPT !.currentTime = 0], "pause:auto"),
                                     t.isActive, t.isPreview))

\* The retry timer t fires: tryPlay runs again.
RetryElapsed(t, request) ==
    /\ t \in carousel.timeouts /\ t.kind = "retry"
    /\ CommitSlide(tryPlay([Slide EXCEPT !.hook.timeouts = @ \ {t}],
                           t.isActive, t.isPreview, request))

\* The component unmounts: the cleanups of the two effects, in their order.
Unmount ==
    /\ carousel.mountedRef
    /\ CommitSlide(clearTimers([Slide EXCEPT !.hook.mountedRef = FALSE,
                                             !.hook.unmounted = TRUE]))

\* Playback of the slide's element advances.
SlideAdvance ==
    /\ ~paused[SlideVideo]
    /\ currentTime[SlideVideo] < MaxTime
    /\ CommitSlide([Slide EXCEPT !.currentTime = @ + 1, !.hook.events = carousel.events])

\* The hook under any props, its element paused at its start.
CarouselInit ==
    /\ sessions = [k \in Keys |-> None]
    /\ globalToken = 0
    /\ calls = <<>>
    /\ settled = NoCall
    /\ paused = [v \in Videos |-> TRUE]
    /\ muted = [v \in Videos |-> FALSE]
    /\ playbackRate = [v \in Videos |-> 1]
    /\ currentTime = [v \in Videos |-> 0]
    /\ frameCallback = TRUE
    /\ hlsSupported = TRUE
    /\ InitSources
    /\ InitSignals
    /\ viewer = NewViewer
    /\ \E p \in SlideProps : carousel = NewSlide(p)
    /\ guard = NewGuard(TRUE)
    /\ autoplay = NewUnlock(TRUE)

CarouselNext ==
    \/ \E r \in SlideRequests : Mount(r)
    \/ \E p \in SlideProps, r \in SlideRequests : SetProps(p, r)
    \/ onError
    \/ \E r \in SlideRequests : retry(r)
    \/ \E i \in 1..MaxRequests : SettleTryPlay(i)
    \/ \E t \in carousel.timeouts : PreviewElapsed(t)
    \/ \E t \in carousel.timeouts, r \in SlideRequests : RetryElapsed(t, r)
    \/ Unmount
    \/ SlideAdvance

CarouselSpec == CarouselInit /\ [][CarouselNext]_vars

\* What the event loop guarantees of a call in flight: the promise of
\* video.play() settles and the timers of setTimeout fire. Nothing makes the
\* browser present a frame or the element advance.
Scheduled(c) ==
    /\ WF_vars(\E r \in PlayRequests : SettlePlay(c, r))
    /\ WF_vars(FrameTimeout(c))
    /\ WF_vars(FastElapsed(c))
    /\ WF_vars(SlowElapsed(c))

LiveSpec == Spec /\ \A c \in 1..MaxCalls : Scheduled(c)

\* -------------------------------------------------- actions of the iOS guard
\* Nothing but the guard changes.
GuardOnly(g) ==
    /\ g.ids <= MaxFrames
    /\ g.timeouts <= MaxOrientation
    /\ guard' = g
    /\ UNCHANGED <<sessions, globalToken, calls, settled, paused, muted, playbackRate,
                   currentTime, frameCallback, sourceVars, signalVars, viewer, carousel,
                   autoplay>>

\* 'visibilitychange' with the document hidden, or 'pagehide'.
Hidden(active) ==
    /\ guard.listening
    /\ GuardOnly(handleReset(Stepping(guard, "event"), active))

\* 'visibilitychange' with the document visible, or 'pageshow'.
Shown ==
    /\ guard.listening
    /\ GuardOnly(handleRetry(Stepping(guard, "event")))

\* 'orientationchange': handleReset() and setTimeout(handleRetry, 200).
OrientationChange(active) ==
    /\ guard.listening
    /\ GuardOnly([handleReset(Stepping(guard, "event"), active) EXCEPT !.timeouts = @ + 1])

\* A timer of onOrientationChange fires.
OrientationElapsed ==
    /\ guard.timeouts > 0
    /\ GuardOnly(handleRetry([Stepping(guard, "timeout") EXCEPT !.timeouts = @ - 1]))

\* The animation frame id comes.
Frame(id, active) ==
    /\ id \in guard.frames
    /\ GuardOnly(frameCallbackOf([Stepping(guard, "frame") EXCEPT !.frames = @ \ {id}], active))

\* A dependency of the second effect changes: its cleanup and its body run.
GuardRerun ==
    /\ guard.mounted /\ guard.ios
    /\ GuardOnly(cancelFrame(Stepping(guard, "effect")))

\* The component unmounts: the cleanups of both effects run.
GuardUnmount ==
    /\ guard.mounted
    /\ GuardOnly([cancelFrame(Stepping(guard, "unmount")) EXCEPT
                      !.mounted = FALSE, !.mountedRef = FALSE, !.listening = FALSE])

\* Date.now() moves on by 300 ms.
GuardTick ==
    /\ guard.now < MaxNow
    /\ GuardOnly([guard EXCEPT !.now = @ + 1, !.ran = "none", !.invoked = {}])

GuardInit ==
    /\ sessions = [k \in Keys |-> None]
    /\ globalToken = 0
    /\ calls = <<>>
    /\ settled = NoCall
    /\ paused = [v \in Videos |-> TRUE]
    /\ muted = [v \in Videos |-> FALSE]
    /\ playbackRate = [v \in Videos |-> 1]
    /\ currentTime = [v \in Videos |-> 0]
    /\ frameCallback = TRUE
    /\ hlsSupported = TRUE
    /\ InitSources
    /\ InitSignals
    /\ viewer = NewViewer
    /\ carousel = NewSlide([isActive |-> FALSE, isPreview |-> FALSE, shouldLoad |-> FALSE])
    /\ \E ios \in BOOLEAN : guard = NewGuard(ios)
    /\ autoplay = NewUnlock(TRUE)

GuardNext ==
    \/ \E active \in BOOLEAN : Hidden(active)
    \/ Shown
    \/ \E active \in BOOLEAN : OrientationChange(active)
    \/ OrientationElapsed
    \/ \E id \in guard.frames, active \in BOOLEAN : Frame(id, active)
    \/ GuardRerun
    \/ GuardUnmount
    \/ GuardTick

GuardSpec == GuardInit /\ [][GuardNext]_vars

\* ------------------------------------------ actions of the autoplay unlock
\* Nothing but the unlock hooks and the latch changes.
UnlockOnly(u) ==
    /\ u.primed <= MaxPrimed
    /\ autoplay' = u
    /\ UNCHANGED <<sessions, globalToken, calls, settled, paused, muted, playbackRate,
                   currentTime, frameCallback, sourceVars, signalVars, viewer, carousel,
                   guard>>

\* Instance i mounts, with or without a container, and its effect runs.
UnlockMount(i, container) ==
    /\ ~autoplay.hooks[i].mounted
    /\ UnlockOnly(armEffect([autoplay EXCEPT !.hooks[i] = NewInstance(container)], i))

\* containerRef of instance i changes identity: cleanup, then the effect again.
UnlockRerun(i, container) ==
    /\ autoplay.hooks[i].mounted
    /\ UnlockOnly(armEffect([cleanup(autoplay, i) EXCEPT !.hooks[i].container = container], i))

\* Instance i unmounts: the cleanup of its effect runs.
UnlockUnmount(i) ==
    /\ autoplay.hooks[i].mounted
    /\ UnlockOnly([autoplay EXCEPT !.hooks[i] = NoInstance])

\* The container of instance i gets a touchstart or a click.
Tap(i, event) ==
    /\ event \in autoplay.hooks[i].listening
    /\ UnlockOnly(unlockOf(autoplay, i))

UnlockInit ==
    /\ sessions = [k \in Keys |-> None]
    /\ globalToken = 0
    /\ calls = <<>>
    /\ settled = NoCall
    /\ paused = [v \in Videos |-> TRUE]
    /\ muted = [v \in Videos |-> FALSE]
    /\ playbackRate = [v \in Videos |-> 1]
    /\ currentTime = [v \in Videos |-> 0]
    /\ frameCallback = TRUE
    /\ hlsSupported = TRUE
    /\ InitSources
    /\ InitSignals
    /\ viewer = NewViewer
    /\ carousel = NewSlide([isActive |-> FALSE, isPreview |-> FALSE, shouldLoad |-> FALSE])
    /\ guard = NewGuard(TRUE)
    /\ \E ios \in BOOLEAN : autoplay = NewUnlock(ios)

UnlockNext ==
    \/ \E i \in Instances, container \in BOOLEAN : UnlockMount(i, container)
    \/ \E i \in Instances, container \in BOOLEAN : UnlockRerun(i, container)
    \/ \E i \in Instances : UnlockUnmount(i)
    \/ \E i \in Instances, event \in UnlockEvents : Tap(i, event)

UnlockSpec == UnlockInit /\ [][UnlockNext]_vars

\* ------------------------------------------------------------- properties
\* The step settles call c: its engine returns and play() resumes to its end;
\* settled' then holds the call as it ended.
Completes(c) == InFlight(c) /\ calls'[c].result # "pending"

AllSettled == Len(calls) > 0 /\ \A c \in 1..Len(calls) : ~InFlight(c)

\* The elements the play() calls so far were given.
CalledVideos == {calls[c].video : c \in 1..Len(calls)}

\* All play() calls so far are in one scope, with pairwise distinct ids.
OneScopeDistinctIds ==
    \A c, d \in 1..Len(calls) :
        /\ calls[c].key[1] = calls[d].key[1]
        /\ c # d => calls[c].key[2] # calls[d].key[2]

\* C1: after play() calls with distinct ids in one scope have all settled, at
\* most one of their media elements is unpaused.
C1_SingleWriter ==
    (AllSettled /\ OneScopeDistinctIds)
        => Cardinality({v \in CalledVideos : ~paused[v]}) <= 1

\* Call c has been followed by a later play() call on its key.
Superseded(c) == \E d \in 1..Len(calls) : d > c /\ calls[d].key = calls[c].key

\* C2: of overlapping play() calls on one key, every call but the last one
\* initiated settles 'cancelled' and leaves the sessions alone; the last one,
\* while a session is stored for the key, finds it to be its own, and leaves
\* it stored if it returns 'playing' and removes it otherwise.
C2_LastCallWins ==
    [][\A c \in 1..Len(calls) : Completes(c) =>
          LET key == calls[c].key
          IN  /\ Superseded(c) => /\ settled'.result = "cancelled"
                                  /\ sessions' = sessions
              /\ (~Superseded(c) /\ sessions[key] # None) =>
                    /\ sessions[key].token = calls[c].token
                    /\ IF settled'.engine = "playing"
                       THEN settled'.result = "playing" /\ sessions'[key] = sessions[key]
                       ELSE settled'.result = settled'.engine /\ sessions'[key] = None
      ]_vars

\* A call settled 'cancelled' although its engine reported 'playing': a later
\* call on the same key owns the stored session.
C2_Witness ==
    /\ settled # NoCall
    /\ settled.result = "cancelled" /\ settled.engine = "playing"
    /\ sessions[settled.key] # None /\ sessions[settled.key].token > settled.token

\* C3: when the engine of a call resolves after reset() removed the call's
\* session, play() returns 'cancelled', whatever the engine reports, and the
\* key stays Idle.
C3_ResetNotResurrected ==
    [][\A c \in 1..Len(calls) :
          (Completes(c) /\ sessions[calls[c].key] = None) =>
              /\ settled'.result = "cancelled"
              /\ sessions'[calls[c].key] = None
      ]_vars

\* The only play() call was reset in flight; its engine then reported 'playing'.
C3_Witness ==
    /\ Len(calls) = 1 /\ settled # NoCall
    /\ settled.engine = "playing" /\ settled.result = "cancelled"
    /\ sessions[settled.key] = None

\* The step is a play() call (the only step that mints a token) for key.
PlayIssuedFor(key) == globalToken' # globalToken /\ calls'[globalToken'].key = key

\* The step is play() or cancelAllExcept() issued for key.
IssuedFor(key) == cancelAllExcept(key) \/ PlayIssuedFor(key)

PlaysElement(v) == globalToken' # globalToken /\ calls'[globalToken'].video = v

C5_CancelledLeavesPaused ==
    [][\A c \in 1..Len(calls) :
          (Completes(c) /\ settled'.result = "cancelled") =>
              \/ paused'[calls[c].video]
              \/ \E k \in Keys : sessions'[k] # None /\ sessions'[k].video = calls[c].video
      ]_vars

PlaybackResults == {"playing", "blocked", "failed", "cancelled"}

\* C6: play() never rejects: every promise settles with one of the four
\* results, whatever the media element's play requests did.
C6_NeverRejects == settled # NoCall => settled.result \in PlaybackResults

\* A call whose play request was rejected with another error than a policy
\* denial, and which had been superseded, settled 'cancelled'.
C6_Witness ==
    /\ settled # NoCall
    /\ settled.pc = "play" /\ settled.engine = "failed" /\ settled.result = "cancelled"

VerifyStages == {"frames", "fast", "slow"}

\* C7: when the first play request is denied by policy, allowAutoMute is true
\* and a verification stage of the retry sees progress, playDeterministic
\* returns 'playing' and leaves the element muted, whatever opts.muted was.
C7_MutedFallback ==
    [][\A c \in 1..Len(calls) :
          (/\ Completes(c)
           /\ calls[c].attempts = 2 /\ calls[c].pc \in VerifyStages
           /\ currentTime[calls[c].video] > calls[c].start) =>
              /\ settled'.engine = "playing"
              /\ muted'[calls[c].video] = TRUE
      ]_vars

\* An unmuted request was denied, retried muted, and is playing muted.
C7_Witness ==
    /\ settled # NoCall
    /\ settled.attempts = 2 /\ settled.engine = "playing"
    /\ settled.allowAutoMute /\ ~settled.muted
    /\ muted[settled.video] /\ ~paused[settled.video]

\* C8: when the first play request was accepted and the last verification stage
\* ends with currentTime not advanced, playDeterministic returns 'failed' with
\* the element paused; it returns 'playing' only from a stage that saw
\* currentTime advance.
C8_SilentStall ==
    [][\A c \in 1..Len(calls) :
          /\ (/\ Completes(c)
              /\ calls[c].attempts = 1 /\ calls[c].pc = "slow"
              /\ currentTime[calls[c].video] <= calls[c].start) =>
                 /\ settled'.engine = "failed"
                 /\ paused'[calls[c].video]
          /\ (Completes(c) /\ settled'.engine = "playing") =>
                 /\ calls[c].pc \in VerifyStages
                 /\ currentTime[calls[c].video] > calls[c].start
      ]_vars

\* An accepted first request stalled through every stage: 'failed', paused.
C8_Witness ==
    /\ settled # NoCall
    /\ settled.attempts = 1 /\ settled.pc = "slow"
    /\ settled.engine = "failed" /\ settled.result = "failed"
    /\ paused[settled.video]

\* C9: after the muted retry, every result other than 'playing' is 'blocked',
\* whether the retry was rejected or accepted without progress.
C9_RetryFailureBlocked ==
    (settled # NoCall /\ settled.attempts = 2 /\ settled.engine # "playing")
        => settled.engine = "blocked"

\* C10: a second play request is issued only on the first attempt, after a
\* policy denial with allowAutoMute true; a first request that is rejected
\* otherwise ends the engine after that one request, 'blocked' for a policy
\* denial (allowAutoMute false) and 'failed' for any other error, with muted
\* equal to opts.muted.
C10_SingleRetry ==
    [][\A c \in 1..Len(calls) :
          /\ (InFlight(c) /\ ~Completes(c) /\ calls'[c].attempts # calls[c].attempts) =>
                /\ calls[c].attempts = 1 /\ calls'[c].attempts = 2
                /\ calls[c].request = "NotAllowedError" /\ calls[c].allowAutoMute
          /\ (Completes(c) /\ calls[c].attempts = 1 /\ calls[c].pc = "play") =>
                /\ settled'.attempts = 1
                /\ calls[c].request = "NotAllowedError" => ~calls[c].allowAutoMute
                /\ settled'.engine =
                      IF calls[c].request = "NotAllowedError" THEN "blocked" ELSE "failed"
                /\ muted'[calls[c].video] = calls[c].muted
      ]_vars

\* A policy denial with allowAutoMute false ended 'blocked' after one play
\* request, the element as muted as the options asked.
C10_Witness ==
    /\ settled # NoCall
    /\ settled.pc = "play" /\ settled.attempts = 1
    /\ settled.engine = "blocked" /\ ~settled.allowAutoMute
    /\ settled.muted /\ muted[settled.video]

\* C11: every play() call eventually settles, given that play requests settle
\* and timers fire, also when no frame is ever presented and currentTime never
\* advances.
C11_EverySettles == \A c \in 1..MaxCalls : InFlight(c) ~> ~InFlight(c)

\* A call on an element with the frame callback settled from the slow sample,
\* no frame having shown progress and currentTime still at its start.
C11_Witness ==
    /\ settled # NoCall /\ frameCallback
    /\ settled.pc = "slow" /\ settled.engine = "failed"
    /\ currentTime[settled.video] = 0

\* C26: cancelAllExcept(key) removes every session stored under another key
\* and pauses its media, and leaves the session stored for key as it is, its
\* media as paused or playing as before.
C26_CancelAllExceptKeeps ==
    [][\A key \in Keys :
          cancelAllExcept(key) =>
              /\ \A other \in Keys \ {key} :
                    /\ sessions'[other] = None
                    /\ sessions[other] # None => paused'[sessions[other].video]
              /\ sessions'[key] = sessions[key]
              /\ sessions[key] # None =>
                    paused'[sessions[key].video] = paused[sessions[key].video]
      ]_vars

\* A call whose play request the browser had accepted is in flight with no
\* session left for it: its session was cancelled, which paused its element
\* and aborted the request.
C26_Witness ==
    \E c \in 1..Len(calls) :
        /\ InFlight(c) /\ calls[c].pc = "play" /\ calls[c].request = "aborted"
        /\ \A k \in Keys : sessions[k] = None
        /\ paused[calls[c].video]

\* C27: a play() call that completes while the session stored for its key
\* holds its token keeps the session and returns 'playing' if the engine
\* returned 'playing'; otherwise it removes the session, its media is paused,
\* and it returns the engine's 'blocked' or 'failed'.
C27_CurrentCallDecides ==
    [][\A c \in 1..Len(calls) :
          (Completes(c) /\ IsCurrent(sessions, calls[c].key, calls[c].token)) =>
              IF settled'.engine = "playing"
              THEN /\ settled'.result = "playing"
                   /\ sessions'[calls[c].key] = sessions[calls[c].key]
              ELSE /\ settled'.engine \in {"blocked", "failed"}
                   /\ settled'.result = settled'.engine
                   /\ sessions'[calls[c].key] = None
                   /\ paused'[calls[c].video]
      ]_vars

\* The muted retry of a call that was not superseded was rejected: play()
\* returned 'blocked', the key is Idle and the element paused.
C27_Witness ==
    /\ settled # NoCall
    /\ settled.attempts = 2 /\ settled.pc = "play"
    /\ settled.engine = "blocked" /\ settled.result = "blocked"
    /\ sessions[settled.key] = None /\ paused[settled.video]

\* C28: tokens increase strictly in call order, over all keys; a stored
\* session's token is at most the counter; and the session stored for a key is
\* never that of a call that a later call on the key superseded.
C28_TokensIncrease ==
    /\ \A c, d \in 1..Len(calls) : c < d => calls[c].token < calls[d].token
    /\ \A k \in Keys : sessions[k] # None => sessions[k].token <= globalToken
    /\ \A c \in 1..Len(calls) :
          (Superseded(c) /\ sessions[calls[c].key] # None) =>
              sessions[calls[c].key].token # calls[c].token

\* Two calls on one key, the first still in flight: the session holds the
\* second token, which is the counter.
C28_Witness ==
    /\ Len(calls) = 2 /\ calls[1].key = calls[2].key
    /\ InFlight(1)
    /\ calls[1].token < calls[2].token
    /\ sessions[calls[2].key] # None
    /\ sessions[calls[2].key].token = calls[2].token
    /\ calls[2].token = globalToken

\* C34: when no play() call is in flight, the element of every stored
\* session is unpaused.
C34_WinnerUnpaused ==
    (\A c \in 1..Len(calls) : ~InFlight(c)) =>
        \A k \in Keys : sessions[k] # None => ~paused[sessions[k].video]

\* The sessions stored.
Stored(S) == {k \in Keys : S[k] # None}

\* C35: the controller never holds more than one session; the synchronous
\* part of play() leaves exactly the new one, and no other step adds one.
C35_OneSession ==
    /\ [](Cardinality(Stored(sessions)) <= 1)
    /\ [][IF globalToken' # globalToken
          THEN \E k \in Keys : /\ Stored(sessions') = {k}
                               /\ sessions'[k].token = globalToken'
          ELSE /\ Stored(sessions') \subseteq Stored(sessions)
               /\ \A k \in Stored(sessions') : sessions'[k] = sessions[k]
      ]_vars

\* A second play(), of the other scope, has replaced the session of the first.
C35_Witness ==
    /\ Len(calls) = 2 /\ calls[1].key[1] # calls[2].key[1]
    /\ Stored(sessions) = {calls[2].key}
    /\ sessions[calls[2].key].token = 2

\* What the source manager owns: the cache, its timers, the stream handles
\* and every element's source.
BindingState ==
    <<cache, disposeTimeouts, timers, created, destroyed, media, orphaned, src, unloaded>>

\* A step of a PlaybackController operation: the synchronous part of play(),
\* reset, cancelAllExcept or resetAll.
ControllerStep ==
    \/ \E req \in BoundRequests, r \in PlayRequests : PlaySync(req, r)
    \/ \E k \in Keys : reset(k)
    \/ \E k \in Keys : cancelAllExcept(k)
    \/ resetAll

\* A step of playDeterministic and of the rest of play() behind it.
EngineStep ==
    \/ \E c \in 1..MaxCalls, r \in PlayRequests : SettlePlay(c, r)
    \/ \E c \in 1..MaxCalls : FrameCallback(c)
    \/ \E c \in 1..MaxCalls : FrameTimeout(c)
    \/ \E c \in 1..MaxCalls : FastElapsed(c)
    \/ \E c \in 1..MaxCalls : SlowElapsed(c)

\* C32: no controller operation and no engine step changes an element's source
\* or the cache, its refCounts and its timers; of an element they change only
\* paused, muted and playbackRate.
C32_ControllerLeavesBinding ==
    [][(ControllerStep \/ EngineStep) =>
            /\ UNCHANGED BindingState
            /\ currentTime' = currentTime
      ]_vars

\* The element is bound to a referenced stream entry, a play() on it has
\* returned 'playing', and a reset has since removed the session and paused it.
C32_Witness ==
    /\ has(cache, buildKey("viewer", "a"))
    /\ get(cache, buildKey("viewer", "a")).refCount = 1
    /\ get(cache, buildKey("viewer", "a")).hls # 0
    /\ media[get(cache, buildKey("viewer", "a")).hls] = "v1"
    /\ src["v1"] # NoSrc
    /\ settled # NoCall /\ settled.result = "playing" /\ settled.video = "v1"
    /\ \A k \in Keys : sessions[k] = None
    /\ paused["v1"]

\* ------------------------------------------ properties of the viewer hook
\* C22: when play() has returned 'cancelled' to an applyPlayback call, the
\* call's continuation leaves isPlaying, isMuted and hasError as they are.
C22_CancelledChangesNothing ==
    [][(Due # {} /\ settled.result = "cancelled") =>
          /\ viewer'.isPlaying = viewer.isPlaying
          /\ viewer'.isMuted = viewer.isMuted
          /\ viewer'.hasError = viewer.hasError
      ]_vars

\* C30: when the readiness wait of the latest applyPlayback call ends and no
\* play() is called, the hook is no longer playing, or is in error.
C30_UnreadyWaitFails ==
    [][\A run \in Waiting(viewer) :
          (/\ IsLatest(viewer, run) /\ viewer'.playTokenRef = viewer.playTokenRef
           /\ run \notin viewer'.applying
           /\ globalToken' = globalToken) =>
              ~viewer'.isPlaying \/ viewer'.hasError
      ]_vars

\* The applyPlayback call run comes back from an await in this step: from
\* play(), or from a readiness wait that the element's error event did not end.
Returns(run) ==
    /\ run \in viewer.applying
    /\ run \notin viewer'.applying
    /\ run.pc = "play" \/ viewer'.hasError = viewer.hasError

\* C38: an applyPlayback call that a later one has superseded comes back from
\* its await without changing isPlaying or isMuted and without an observer
\* event.
C38_SupersededIsSilent ==
    [][\A run \in viewer.applying :
          (Returns(run) /\ run.token < viewer.playTokenRef) =>
              /\ viewer'.isPlaying = viewer.isPlaying
              /\ viewer'.isMuted = viewer.isMuted
              /\ viewer'.emitted = {}
      ]_vars

\* The play() of a superseded applyPlayback call has returned 'cancelled' to
\* it, a later call having played, and the hook still shows playing.
C38_Witness ==
    /\ settled # NoCall /\ settled.result = "cancelled"
    /\ settled.token < globalToken
    /\ \A run \in viewer.applying : run.call # settled.token
    /\ viewer.playTokenRef > 1
    /\ viewer.isPlaying /\ ~viewer.hasError
    /\ viewer.emitted = {}

\* C39: when the latest applyPlayback call comes back from play(), isMuted is
\* the element's muted flag. Stated for the calls that come back with no
\* render pending, so that isMuted is still the value the call closed over.
C39_MutedFollowsElement ==
    [][\A run \in Due :
          (run.token = viewer.playTokenRef /\ ~viewer.stale) =>
              viewer'.isMuted = muted'[ViewerVideo]
      ]_vars

\* The element has a source it can load: one that was assigned to it and is
\* not the stream of a destroyed handle.
Loadable ==
    /\ src[ViewerVideo] # NoSrc
    /\ \A h \in destroyed : src[ViewerVideo] # Blob(h)

\* C31: when the play() call of a retry starts, the key's session is the one
\* this call stores, and the element is bound to an entry cached for the key,
\* which, the retry having removed and destroyed the entry it found, is one
\* created since. Stated for the retries of an element that had been attached
\* and can load.
C31_RetryReloadsClean ==
    [][(viewer.retried /\ globalToken' # globalToken /\ Loadable) =>
          /\ sessions'[ViewerKey] # None
          /\ sessions'[ViewerKey].token = globalToken'
          /\ has(cache', ViewerKey)
          /\ LET entry == get(cache', ViewerKey)
             IN  /\ entry.refCount > 0
                 /\ IF entry.hls # 0
                    THEN entry.hls \notin destroyed' /\ media'[entry.hls] = ViewerVideo
                    ELSE src'[ViewerVideo] = entry.url
      ]_vars

\* ---------------------------------------- properties of the carousel hook
\* C23: a mounted slide that is loaded, not in error, and neither active nor
\* preview has its video paused, from the commit that made it so (which
\* resets currentTime and emits pause(id, 'auto')) until it is active or
\* preview again.
C23_InactiveStaysPaused ==
    /\ [](( /\ carousel.mountedRef /\ carousel.shouldLoad /\ ~carousel.hasError
            /\ ~carousel.isActive /\ ~carousel.isPreview) => paused[SlideVideo])
    /\ [][( /\ carousel.mountedRef /\ carousel'.mountedRef
            /\ carousel'.shouldLoad /\ ~carousel'.hasError
            /\ ~carousel'.isActive /\ ~carousel'.isPreview
            /\ (carousel.isActive \/ carousel.isPreview \/ ~carousel.shouldLoad)) =>
               /\ currentTime'[SlideVideo] = 0
               /\ "pause:auto" \in carousel'.events
      ]_vars

\* C24: while the slide stays in the error state, no step of the hook calls
\* video.play().
C24_NoPlayInError ==
    [][(carousel.hasError /\ carousel'.hasError) => carousel'.played = carousel.played]_vars

\* C25: after the unmount no timer of the hook is armed.
C25_NoTimerAfterUnmount == carousel.unmounted => carousel.timeouts = {}

\* ------------------------------------------- properties of the source manager
refCountOf(C, key) == IF has(C, key) THEN get(C, key).refCount ELSE 0
Cached(C, id) == \E i \in 1..Len(C) : C[i].id = id
TimerFor(T, key) == \E t \in T : t.key = key

\* C12: under attach and detach calls and timer firings, no refCount is ever
\* below 0, and no entry leaves the cache, nor is its stream handle destroyed,
\* while its refCount is greater than 0.
C12_RefCounted ==
    [][/\ \A i \in 1..Len(cache') : cache'[i].refCount >= 0
       /\ last'.op \in {"attach", "detach", "dispose"} =>
             \A i \in 1..Len(cache) :
                 cache[i].refCount > 0 =>
                     /\ Cached(cache', cache[i].id)
                     /\ cache[i].hls \notin destroyed'
      ]_vars

\* C13: attach with the same resolved URL on an entry of refCount 0 whose
\* disposal timer is pending reuses the entry and its handle, constructs no
\* entry, makes the refCount 1, and leaves no armed timer for the key.
C13_ReattachReuses ==
    [][\A k \in Keys :
          (/\ last'.op = "attach" /\ last'.key = k
           /\ has(cache, k) /\ get(cache, k).refCount = 0
           /\ disposeTimeouts[k] # NoTimer
           /\ get(cache', k).url = get(cache, k).url) =>
              /\ get(cache', k).id = get(cache, k).id
              /\ get(cache', k).hls = get(cache, k).hls
              /\ get(cache, k).hls \notin destroyed'
              /\ created' = created
              /\ get(cache', k).refCount = 1
              /\ disposeTimeouts'[k] = NoTimer
              /\ ~TimerFor(timers', k)
      ]_vars

\* The last call attached to an entry it found with refCount 0: the entry, a
\* stream entry, is the one cached now, referenced once and not destroyed.
C13_Witness ==
    /\ last.op = "attach" /\ last.entry # 0 /\ last.refCount = 0
    /\ get(cache, last.key).id = last.entry
    /\ get(cache, last.key).refCount = 1
    /\ get(cache, last.key).hls = last.entry
    /\ last.entry \notin destroyed
    /\ ~TimerFor(timers, last.key)

\* Element video is bound to the entry e: given to its handle, or carrying its URL.
BoundTo(video, e) ==
    IF e.hls # 0 THEN media[e.hls] = video /\ src[video] = Blob(e.hls)
    ELSE src[video] = e.url

\* C14: attaching an element to a key it is attached to, with the same
\* resolved URL, changes neither the cache (refCount included) nor the
\* element's binding.
C14_AttachIdempotent ==
    [][\A k \in Keys :
          (/\ last'.op = "attach" /\ last'.key = k
           /\ has(cache, k) /\ get(cache, k).refCount > 0
           /\ BoundTo(last'.video, get(cache, k))
           /\ get(cache', k).url = get(cache, k).url) =>
              /\ cache' = cache
              /\ src' = src /\ media' = media
      ]_vars

\* The entry id is cached with refCount 0.
ZeroRef(id) == \E i \in 1..Len(cache) : cache[i].id = id /\ cache[i].refCount = 0

\* C15: an entry of refCount 0 does not stay cached: it is removed, or
\* referenced again; and the timer that fires on it removes it and destroys
\* its handle.
C15_ZeroRefReclaimed ==
    /\ \A id \in 1..MaxEntries : []<>~ZeroRef(id)
    /\ [][(last'.op = "dispose" /\ has(cache, last'.key) /\ get(cache, last'.key).refCount = 0) =>
              /\ ~has(cache', last'.key)
              /\ get(cache, last'.key).hls # 0 => get(cache, last'.key).hls \in destroyed'
         ]_vars

\* A timer fired on a stream entry of refCount 0: the key is no longer cached
\* and the handle is destroyed.
C15_Witness ==
    /\ last.op = "dispose" /\ last.entry # 0 /\ last.refCount = 0
    /\ ~has(cache, last.key)
    /\ last.entry \in destroyed

\* C16: preload leaves its key with refCount 0 if it constructed the entry and
\* with a refCount not above the former one otherwise, and changes the
\* refCount of no other key.
C16_PreloadKeepsCounts ==
    [][last'.op = "preload" =>
          \A k \in Keys :
              IF k # last'.key THEN refCountOf(cache', k) = refCountOf(cache, k)
              ELSE IF get(cache', k).id > created THEN get(cache', k).refCount = 0
              ELSE refCountOf(cache', k) <= refCountOf(cache, k)
      ]_vars

\* preload found its entry referenced: it stays cached with that refCount,
\* and preload armed its timer.
C16_Witness ==
    /\ last.op = "preload" /\ last.entry # 0 /\ last.refCount > 0
    /\ get(cache, last.key).id = last.entry
    /\ get(cache, last.key).refCount = last.refCount
    /\ disposeTimeouts[last.key] # NoTimer

\* C17: reset(key) leaves no entry under key, its handle destroyed, whatever
\* the refCount, and no timer armed or registered for key.
C17_ResetDestroys ==
    [][last'.op = "reset" =>
          LET k == last'.key
          IN  /\ ~has(cache', k)
              /\ (has(cache, k) /\ get(cache, k).hls # 0) => get(cache, k).hls \in destroyed'
              /\ disposeTimeouts'[k] = NoTimer
              /\ ~TimerFor(timers', k)
      ]_vars

\* reset found a referenced stream entry: it is gone and its handle destroyed.
C17_Witness ==
    /\ last.op = "reset" /\ last.entry # 0 /\ last.refCount > 0
    /\ ~has(cache, last.key)
    /\ last.entry \in destroyed

Attached == {i \in 1..Len(cache) : cache[i].refCount > 0}

\* C18: while fewer keys than the capacity are attached, the cache holds no
\* more entries than the capacity.
C18_CacheBounded == Cardinality(Attached) < CACHE_LIMIT => Len(cache) <= CACHE_LIMIT

\* C19: detach with an element releases it in the viewer scope (paused, no
\* source, emptied by load()), cached entry or not, and leaves its source and
\* paused state alone otherwise.
C19_ViewerReleases ==
    [][(last'.op = "detach" /\ last'.video # "none") =>
          IF last'.scope = "viewer"
          THEN /\ paused'[last'.video]
               /\ src'[last'.video] = NoSrc
               /\ unloaded'[last'.video]
          ELSE /\ paused'[last'.video] = paused[last'.video]
               /\ src'[last'.video] = src[last'.video]
      ]_vars

\* C29: a key's refCount changes only by +1 in an attach on the key and by
\* -1, floored at 0, in a detach on the key; and while it is greater than 0
\* no call but reset(key) puts another entry in the place of the key's entry
\* or removes it.
C29_CountOnlyByAttachDetach ==
    [][\A k \in SourceKeys :
          LET before == refCountOf(cache, k)
              after == refCountOf(cache', k)
          IN  /\ after # before =>
                    \/ /\ last'.op = "attach" /\ last'.key = k
                       /\ after = before + 1
                    \/ /\ last'.op = "detach" /\ last'.key = k
                       /\ after = decrement(before)
                    \/ last'.op = "reset" /\ last'.key = k
              /\ (before > 0 /\ ~(last'.op = "reset" /\ last'.key = k)) =>
                    /\ has(cache', k)
                    /\ get(cache', k).id = get(cache, k).id
      ]_vars

\* C36: between cache operations every cached entry of refCount 0 has its
\* disposal timer pending, every pending timer is the one registered for a key
\* that has an entry, and so the eviction pass, where ensureEntry runs it for
\* any key, finds no entry it may evict.
C36_ZeroRefHasTimer ==
    /\ \A i \in 1..Len(cache) :
          cache[i].refCount = 0 =>
              /\ disposeTimeouts[cache[i].key] # NoTimer
              /\ disposeTimeouts[cache[i].key] \in timers
    /\ \A t \in timers : has(cache, t.key) /\ disposeTimeouts[t.key] = t
    /\ \A k \in Keys : disposeTimeouts[k] # NoTimer => has(cache, k)
    /\ \A k \in SourceKeys :
          LET m1 == cancelPendingDispose(Manager, k)
              m2 == IF has(m1.cache, k)
                    THEN delete(destroy(m1, get(m1.cache, k).hls), k)
                    ELSE m1
          IN  cleanupCacheIfNeeded(m2) = m2

\* The cache is at its capacity with an unreferenced entry, whose timer is
\* pending, beside a referenced one.
C36_Witness ==
    /\ Len(cache) > CACHE_LIMIT
    /\ \E i, j \in 1..Len(cache) :
          /\ cache[i].refCount = 0 /\ disposeTimeouts[cache[i].key] \in timers
          /\ cache[j].refCount > 0

\* C37: a stream handle is destroyed in the step in which its entry leaves
\* the cache and in no other: the handle of a cached entry, and the handle a
\* pending timer holds, are not destroyed, and an entry that leaves takes its
\* handle with it.
C37_HandleDestroyedOnce ==
    /\ [](/\ \A i \in 1..Len(cache) : cache[i].hls # 0 => cache[i].hls \notin destroyed
          /\ \A t \in timers : t.hls # 0 => t.hls \notin destroyed)
    /\ [][/\ \A i \in 1..Len(cache) :
                (cache[i].hls # 0 /\ ~Cached(cache', cache[i].id)) =>
                    cache[i].hls \in destroyed'
          /\ \A h \in destroyed' \ destroyed :
                \E i \in 1..Len(cache) : cache[i].hls = h /\ ~Cached(cache', cache[i].id)
          /\ destroyed \subseteq destroyed'
      ]_vars

\* A stream entry was replaced under another URL while referenced: its handle
\* is destroyed, it is cached no more, and the key has a newer entry.
C37_Witness ==
    /\ last.op = "attach" /\ last.entry # 0 /\ last.refCount > 0
    /\ last.entry \in destroyed
    /\ ~Cached(cache, last.entry)
    /\ has(cache, last.key)

\* ------------------------------------------------ properties of the resolver
IsVariants(x) == DOMAIN x = {"low", "mid", "high"}
Held(variants) == {f \in {"low", "mid", "high"} : Truthy(variants[f])}

\* C20: a resolution changes nothing but its own result, which the signals
\* and the source determine; a variant set holding one variant resolves to it
\* under every signal, and one holding none resolves to undefined.
C20_ResolverPure ==
    [][/\ UNCHANGED <<connection, innerWidth, sourceVars, ControllerIdle, calls, paused, currentTime, hookVars>>
       /\ source' = source => resolved' = resolved
       /\ IsVariants(source') =>
             /\ \A f \in {"low", "mid", "high"} : Held(source') = {f} => resolved' = source'[f]
             /\ Held(source') = {} => ~Truthy(resolved')
      ]_vars

\* On a small screen, where low is preferred, a set holding only the high
\* variant resolved to it.
C20_Witness ==
    /\ isSmallScreen
    /\ IsVariants(source) /\ Held(source) = {"high"}
    /\ resolved = source.high

\* The first non-empty of the values in order, if there is one.
RECURSIVE FirstNonEmpty(_)
FirstNonEmpty(values) ==
    IF values = <<>> THEN Undefined
    ELSE IF Truthy(Head(values)) THEN Head(values)
    ELSE FirstNonEmpty(Tail(values))

\* The policy: which variant is preferred, and the order of the fallbacks.
Preference(variants) ==
    IF getInitialBandwidthEstimate < 500000 \/ (innerWidth # NoWindow /\ innerWidth < 768)
    THEN <<variants.low, variants.mid, variants.high>>
    ELSE IF getInitialBandwidthEstimate < 2000000
    THEN <<variants.mid, variants.high, variants.low>>
    ELSE <<variants.high, variants.mid, variants.low>>

\* C21: for every variant set and every signal, the resolved URL is the first
\* non-empty variant in the order of the policy: low, mid, high on a slow
\* network or a small viewport, from mid on a medium network, from high
\* otherwise; a set with no non-empty variant resolves to no URL.
C21_ResolvesByPolicy ==
    IsVariants(source) =>
        IF Held(source) = {} THEN ~Truthy(resolved)
        ELSE resolved = FirstNonEmpty(Preference(source))

\* On a wide viewport and a medium network, a set without mid, whose low and
\* high differ, resolved to high.
C21_Witness ==
    /\ innerWidth = 768
    /\ getInitialBandwidthEstimate >= 500000 /\ getInitialBandwidthEstimate < 2000000
    /\ IsVariants(source) /\ Held(source) = {"low", "high"}
    /\ source.low # source.high
    /\ resolved = source.high

\* ----------------------------------------- properties of the platform hooks
\* C33: once unlocked is true it stays true, and audio.play() has primed at
\* most once, whatever the instances, containers and taps.
C33_UnlockLatches ==
    /\ [](autoplay.primed <= 1)
    /\ [](autoplay.unlocked <=> autoplay.primed = 1)
    /\ [][autoplay.unlocked => autoplay'.unlocked]_vars

\* A tap on one instance's container has unlocked the page, and another
\* instance, mounted before the unlock, still listens on its container.
C33_Witness ==
    /\ autoplay.unlocked /\ autoplay.primed = 1
    /\ \E i, j \in Instances :
          /\ i # j
          /\ autoplay.hooks[i].mounted /\ autoplay.hooks[i].listening = {}
          /\ ~autoplay.hooks[i].armedRef
          /\ autoplay.hooks[j].mounted /\ autoplay.hooks[j].listening = UnlockEvents

\* C40: a step of the guard taken after the unmount calls neither onReset nor
\* onRetry.
C40_SilentAfterUnmount ==
    ~guard.mounted => guard.invoked = {}

\* After the unmount a timer of onOrientationChange has fired and requested a
\* frame, and the frame has come, the retry delay having passed.
C40_Witness ==
    /\ ~guard.mounted
    /\ guard.ran = "frame"
    /\ guard.timeouts = 0 /\ guard.frames = {}
    /\ guard.rafRef # 0
    /\ guard.now - guard.lastRetryTs >= 1
    /\ guard.invoked = {}

TypeOK ==
    /\ globalToken \in 0..MaxCalls
    /\ Len(calls) = globalToken
    /\ \A k \in Keys : sessions[k] = None \/ sessions[k].token \in 1..globalToken

====
